---- MODULE Spec2Model ----
(***************************************************************************)
(* Model of the hierarchical analysis cache and traversal engine of        *)
(* analyze-action: NotesCache (notes-cache.js), ModelAdapter.callWithJSON  *)
(* (model-adapter.js), DeepDiveAnalyzer (deep-dive-analyzer.js), the file  *)
(* walks of bin/run-agent.js, bin/coaching.js and agent-state.js, and      *)
(* CoachingSystem (coaching-system.js).                                    *)
(*                                                                         *)
(* Text is a sequence of symbols.  A symbol is a one-character string      *)
(* ("/", ".", "{", ...) or an alphanumeric word ("root", "js") that is     *)
(* never split.  A path is text; a note path (the result of path.join) is  *)
(* a sequence of segments, each segment being text without "/".            *)
(***************************************************************************)
EXTENDS Integers, Sequences, FiniteSets, TLC

VARIABLES
    \* DeepDiveAnalyzer / NotesCache
    notes,      \* the files under .agent-notes: note path -> NoteRecord
    now,        \* Date.now(), in ms since the start of the model
    ticks,      \* number of clock advances so far
    phase,      \* position of deepDiveAnalysis
    stack,      \* frames of the running recursive walk
    maxDepth,   \* options.maxDepth of the run
    modIdx,     \* index into moduleFiles of analyzeModules
    results,    \* results.files / .directories / .modules of the run
    summary,    \* results.summary
    run,        \* the process of the run: summary calls made, the summary
                \* call or its parse failed, a read of the run has failed,
                \* the exit code (-1 while it has not exited), and whether
                \* the agent id of the run names a character of the file
    calls,      \* Model Invocation Service calls issued in this run
    ioErr,      \* a saveNote of this run has thrown
    diskFaults, \* number of writeFile failures so far
    last,       \* the last per-item step (analyzeFile/Directory/Module)
    returned,   \* what the latest cache-miss step of each item returned
    \* isNoteRecent applied to a drawn input
    fIn, fOut,
    \* callWithJSON applied to a drawn response text
    jIn, jOut,
    \* getNotePath applied to a drawn path
    kIn, kOut,
    \* a NotesCache used on its own: the note files, what was saved so far,
    \* and the last operation with its result
    disk, hist, op,
    \* the repository walks applied to a drawn file system
    tIn, tOut,
    \* a recursive walk taken call by call over a drawn directory graph:
    \* the walk and its graph, the frames of the calls that have not
    \* returned, and the state and results of the walk
    vIn, vStack, vOut,
    \* a coaching session: its position and results
    cSess

mainVars == <<notes, now, ticks, phase, stack, maxDepth, modIdx, results, summary, run, calls, ioErr, diskFaults, last, returned>>
freshVars == <<fIn, fOut>>
jsonVars == <<jIn, jOut>>
keyVars == <<kIn, kOut>>
storeVars == <<disk, hist, op>>
walkVars == <<tIn, tOut>>
travVars == <<vIn, vStack, vOut>>
coachVars == <<cSess>>
pureVars == <<freshVars, jsonVars, keyVars, storeVars, walkVars, travVars, coachVars>>
vars == <<mainVars, pureVars>>

Null == [null |-> TRUE]

(***************************************************************************)
(* Bounds                                                                  *)
(***************************************************************************)
MaxTicks == 1
MaxDiskFaults == 1
MaxElems == 2
MaxTextLen == 4
MaxPathLen == 3
MaxSkew == 3

(***************************************************************************)
(* Sequence helpers                                                        *)
(***************************************************************************)
RECURSIVE SeqsUpTo(_, _)
SeqsUpTo(S, n) ==
    IF n = 0 THEN {<<>>}
    ELSE LET shorter == SeqsUpTo(S, n - 1)
         IN  shorter \cup {Append(s, x) : s \in {t \in shorter : Len(t) = n - 1}, x \in S}

RECURSIVE Concat(_)
Concat(ss) == IF ss = <<>> THEN <<>> ELSE Head(ss) \o Concat(Tail(ss))

\* the smallest index >= i with s[index] \in S, or 0
RECURSIVE IndexFrom(_, _, _)
IndexFrom(s, S, i) ==
    IF i > Len(s) THEN 0
    ELSE IF s[i] \in S THEN i
    ELSE IndexFrom(s, S, i + 1)

\* the largest index <= i with s[index] \in S, or 0
RECURSIVE LastIndexFrom(_, _, _)
LastIndexFrom(s, S, i) ==
    IF i < 1 THEN 0
    ELSE IF s[i] \in S THEN i
    ELSE LastIndexFrom(s, S, i - 1)

(***************************************************************************)
(* JSON values, JSON.stringify and JSON.parse                              *)
(* A value is a tagged record: a number carries its digits, a string its   *)
(* symbols, an array its elements, an object its members in order.         *)
(***************************************************************************)
Num(d) == [t |-> "num", v |-> d]
Str(s) == [t |-> "str", v |-> s]
Arr(xs) == [t |-> "arr", v |-> xs]
Obj(ms) == [t |-> "obj", v |-> ms]
Member(k, x) == [k |-> k, v |-> x]

Digits == {"0", "1"}
Quote == "\""
Openers == {"{", "["}
Closers == {"}", "]"}

RECURSIVE JSONStringify(_)
RECURSIVE StringifyElems(_)
RECURSIVE StringifyMembers(_)
JSONStringify(x) ==
    CASE x.t = "num" -> x.v
      [] x.t = "str" -> <<Quote>> \o x.v \o <<Quote>>
      [] x.t = "arr" -> <<"[">> \o StringifyElems(x.v) \o <<"]">>
      [] x.t = "obj" -> <<"{">> \o StringifyMembers(x.v) \o <<"}">>
StringifyElems(xs) ==
    IF xs = <<>> THEN <<>>
    ELSE JSONStringify(Head(xs))
         \o (IF Len(xs) > 1 THEN <<",">> \o StringifyElems(Tail(xs)) ELSE <<>>)
StringifyMembers(ms) ==
    IF ms = <<>> THEN <<>>
    ELSE <<Quote>> \o Head(ms).k \o <<Quote, ":">> \o JSONStringify(Head(ms).v)
         \o (IF Len(ms) > 1 THEN <<",">> \o StringifyMembers(Tail(ms)) ELSE <<>>)

\* JSON.parse: a recursive-descent parser; each Parse* returns
\* [ok, v, i] with i the index after the parsed value.
ParseFail == [ok |-> FALSE, v |-> Null, i |-> 0]
ParseOk(x, i) == [ok |-> TRUE, v |-> x, i |-> i]

RECURSIVE SkipWs(_, _)
SkipWs(s, i) == IF i <= Len(s) /\ s[i] = " " THEN SkipWs(s, i + 1) ELSE i

RECURSIVE DigitsEnd(_, _)
DigitsEnd(s, i) == IF i <= Len(s) /\ s[i] \in Digits THEN DigitsEnd(s, i + 1) ELSE i

ParseNumber(s, i) ==
    LET j == DigitsEnd(s, i)
    IN  IF j - i > 1 /\ s[i] = "0" THEN ParseFail
        ELSE ParseOk(Num(SubSeq(s, i, j - 1)), j)

ParseString(s, i) ==
    LET j == IndexFrom(s, {Quote}, i + 1)
    IN  IF j = 0 THEN ParseFail ELSE ParseOk(Str(SubSeq(s, i + 1, j - 1)), j + 1)

\* a later member with the same key replaces the value of the earlier one
PutMember(ms, k, x) ==
    IF \E n \in 1..Len(ms) : ms[n].k = k
    THEN [n \in 1..Len(ms) |-> IF ms[n].k = k THEN Member(k, x) ELSE ms[n]]
    ELSE Append(ms, Member(k, x))

RECURSIVE ParseValue(_, _)
RECURSIVE ParseElems(_, _, _)
RECURSIVE ParseMembers(_, _, _)
ParseValue(s, i0) ==
    LET i == SkipWs(s, i0)
    IN  IF i > Len(s) THEN ParseFail
        ELSE IF s[i] = "[" THEN
            LET j == SkipWs(s, i + 1)
            IN  IF j <= Len(s) /\ s[j] = "]" THEN ParseOk(Arr(<<>>), j + 1)
                ELSE ParseElems(s, j, <<>>)
        ELSE IF s[i] = "{" THEN
            LET j == SkipWs(s, i + 1)
            IN  IF j <= Len(s) /\ s[j] = "}" THEN ParseOk(Obj(<<>>), j + 1)
                ELSE ParseMembers(s, j, <<>>)
        ELSE IF s[i] = Quote THEN ParseString(s, i)
        ELSE IF s[i] \in Digits THEN ParseNumber(s, i)
        ELSE ParseFail
ParseElems(s, i, acc) ==
    LET r == ParseValue(s, i)
    IN  IF ~r.ok THEN ParseFail
        ELSE LET j == SkipWs(s, r.i)
             IN  IF j > Len(s) THEN ParseFail
                 ELSE IF s[j] = "]" THEN ParseOk(Arr(Append(acc, r.v)), j + 1)
                 ELSE IF s[j] = "," THEN ParseElems(s, j + 1, Append(acc, r.v))
                 ELSE ParseFail
ParseMembers(s, i0, acc) ==
    LET i == SkipWs(s, i0)
    IN  IF i > Len(s) \/ s[i] # Quote THEN ParseFail
        ELSE LET k == ParseString(s, i)
             IN  IF ~k.ok THEN ParseFail
                 ELSE LET c == SkipWs(s, k.i)
                      IN  IF c > Len(s) \/ s[c] # ":" THEN ParseFail
                          ELSE LET r == ParseValue(s, c + 1)
                               IN  IF ~r.ok THEN ParseFail
                                   ELSE LET j == SkipWs(s, r.i)
                                            ms == PutMember(acc, k.v.v, r.v)
                                        IN  IF j > Len(s) THEN ParseFail
                                            ELSE IF s[j] = "}" THEN ParseOk(Obj(ms), j + 1)
                                            ELSE IF s[j] = "," THEN ParseMembers(s, j + 1, ms)
                                            ELSE ParseFail

\* JSON.parse(text): [ok, v]; not ok stands for the SyntaxError it throws
JSONParse(s) ==
    LET r == ParseValue(s, 1)
    IN  IF r.ok /\ SkipWs(s, r.i) = Len(s) + 1
        THEN [ok |-> TRUE, v |-> r.v]
        ELSE [ok |-> FALSE, v |-> Null]

(***************************************************************************)
(* ModelAdapter.callWithJSON (src/model-adapter.js)                        *)
(***************************************************************************)
Returned(x) == [ok |-> TRUE, v |-> x, err |-> "none"]
Thrown(msg) == [ok |-> FALSE, v |-> Null, err |-> msg]

\* a faulty jsonMatch: the lazy pattern /[\{\[][\s\S]*?[\}\]]/, which stops at
\* the first closer after the first opener
jsonMatchLazy(text) ==
    LET first == IndexFrom(text, Openers, 1)
        firstc == IF first = 0 THEN 0 ELSE IndexFrom(text, Closers, first + 1)
    IN  IF first # 0 /\ firstc # 0 THEN SubSeq(text, first, firstc) ELSE <<>>

\* response.text.match(/[\{\[][\s\S]*[\}\]]/): greedy, from the first opener
\* that has a closer after it to the last closer; <<>> stands for no match
jsonMatch(text) ==
    LET first == IndexFrom(text, Openers, 1)
        lastc == LastIndexFrom(text, Closers, Len(text))
    IN  IF first # 0 /\ lastc > first THEN SubSeq(text, first, lastc) ELSE <<>>

\* the counting loop: n is the 1-based position, so the code's i is n - 1
\* and its endPos = i + 1 is n
RECURSIVE CountLoop(_, _, _, _)
CountLoop(jsonStr, n, braceCount, bracketCount) ==
    IF n > Len(jsonStr) THEN 0
    ELSE LET char == jsonStr[n]
             bc == braceCount + (IF char = "{" THEN 1 ELSE 0) - (IF char = "}" THEN 1 ELSE 0)
             kc == bracketCount + (IF char = "[" THEN 1 ELSE 0) - (IF char = "]" THEN 1 ELSE 0)
         IN  IF bc = 0 /\ kc = 0 /\ n - 1 > 0 THEN n
             ELSE CountLoop(jsonStr, n + 1, bc, kc)

\* a faulty endPos: when the counters never both reach zero, keep the whole
\* match instead of the empty prefix
endPosOrWhole(jsonStr) ==
    IF CountLoop(jsonStr, 1, 0, 0) = 0 THEN Len(jsonStr) ELSE CountLoop(jsonStr, 1, 0, 0)

endPos(jsonStr) == CountLoop(jsonStr, 1, 0, 0)

completeJson(text) == SubSeq(jsonMatch(text), 1, endPos(jsonMatch(text)))

\* a response of call(): [ok |-> FALSE] when call() throws, else its text
CallFailed == [ok |-> FALSE, text |-> <<>>]
Responded(text) == [ok |-> TRUE, text |-> text]

callWithJSON(response) ==
    IF ~response.ok THEN Thrown("Failed to call LLM")
    ELSE IF jsonMatch(response.text) # <<>>
         THEN LET parsed == JSONParse(completeJson(response.text))
              IN  IF parsed.ok THEN Returned(parsed.v)
                  ELSE Thrown("Failed to parse JSON response")
         ELSE Thrown("No valid JSON found in response")

\* the variant of callWithJSON bundled with deep-dive-analyzer.js:
\* response.text.match(/\{[\s\S]*\}/) and JSON.parse of the whole match
jsonMatchBraces(text) ==
    LET first == IndexFrom(text, {"{"}, 1)
        lastc == LastIndexFrom(text, {"}"}, Len(text))
    IN  IF first # 0 /\ lastc > first THEN SubSeq(text, first, lastc) ELSE <<>>

callWithJSONBraces(response) ==
    IF ~response.ok THEN Thrown("Failed to call LLM")
    ELSE IF jsonMatchBraces(response.text) # <<>>
         THEN LET parsed == JSONParse(jsonMatchBraces(response.text))
              IN  IF parsed.ok THEN Returned(parsed.v)
                  ELSE Thrown("Failed to parse JSON response")
         ELSE Thrown("No valid JSON found in response")

(***************************************************************************)
(* NotesCache.getNotePath (notes-cache.js) and path.join                   *)
(***************************************************************************)
Words == {"root", "w", "a", "b", "c", "d", "z", "sub", "js", "md", "lib", "git", "package", "json",
          "file", "directory", "module", "architect"}
SafeChars == {"/", ".", "_", "-"}

\* path.replace(/[^a-zA-Z0-9/._-]/g, '_')
Sanitize(path) ==
    [n \in 1..Len(path) |-> IF path[n] \in Words \cup SafeChars THEN path[n] ELSE "_"]

\* text split at "/" into segments (empty segments included)
RECURSIVE SplitPath(_)
SplitPath(text) ==
    LET n == IndexFrom(text, {"/"}, 1)
    IN  IF n = 0 THEN <<text>>
        ELSE <<SubSeq(text, 1, n - 1)>> \o SplitPath(SubSeq(text, n + 1, Len(text)))

DotDot == <<".", ".">>

\* path.normalize of a relative path, segment by segment
RECURSIVE NormalizeSegs(_, _)
NormalizeSegs(segs, acc) ==
    IF segs = <<>> THEN acc
    ELSE LET seg == Head(segs)
             rest == Tail(segs)
         IN  IF seg = <<>> \/ seg = <<".">> THEN NormalizeSegs(rest, acc)
             ELSE IF seg = DotDot /\ acc # <<>> /\ acc[Len(acc)] # DotDot
                  THEN NormalizeSegs(rest, SubSeq(acc, 1, Len(acc) - 1))
             ELSE NormalizeSegs(rest, Append(acc, seg))

\* path.join(...parts): the parts joined by "/" and normalized
PathJoin(parts) ==
    LET segs == NormalizeSegs(Concat([n \in 1..Len(parts) |-> SplitPath(parts[n])]), <<>>)
    IN  IF segs = <<>> THEN <<<<".">>>> ELSE segs

agentId == <<"architect">>
basePath == <<".agent-notes">>
\* this.notesPath = join(basePath, agentId)
notesPath == basePath \o <<"/">> \o agentId

Levels == {"file", "directory", "module", "package"}

getNotePath(path, level) ==
    LET sanitizedPath == Sanitize(path)
        fileName == <<level, ".", "json">>
    IN  IF path = <<".">> \/ path = <<>>
        THEN PathJoin(<<notesPath, <<"root">>, fileName>>)
        ELSE PathJoin(<<notesPath, sanitizedPath, fileName>>)

(***************************************************************************)
(* DeepDiveAnalyzer.isNoteRecent                                          *)
(***************************************************************************)
DefaultMaxAge == 24 * 60 * 60 * 1000

\* a faulty isNoteRecent: age <= maxAge
isNoteRecentInclusive(note, dateNow, maxAge) ==
    LET age == dateNow - note.timestamp
    IN  age <= maxAge

\* Date.now() is the parameter dateNow
isNoteRecent(note, dateNow, maxAge) ==
    LET age == dateNow - note.timestamp
    IN  age < maxAge

(***************************************************************************)
(* The repository that is analyzed, and the Model Invocation Service       *)
(***************************************************************************)
repoPath == <<"w">>

Name(stem, ext) == <<stem, ".", ext>>
\* join(dirPath, entry)
Child(dirPath, entry) == dirPath \o <<"/">> \o entry

LibDir == Child(repoPath, <<"lib">>)
GitDir == Child(repoPath, <<".", "git">>)
SubDir == Child(LibDir, <<"sub">>)

Directories == {repoPath, LibDir, GitDir, SubDir}

readdir(dirPath) ==
    CASE dirPath = repoPath ->
            <<<<".", "git">>, Name("a", "js"), <<"lib">>, Name("package", "json")>>
      [] dirPath = LibDir -> <<Name("b", "js"), Name("c", "md"), <<"sub">>>>
      [] dirPath = SubDir -> <<Name("d", "js")>>
      [] dirPath = GitDir -> <<Name("z", "js")>>
      [] OTHER -> <<>>

\* stat(path): "dir", "file", or "none" when stat throws ENOENT
statKind(path) ==
    IF path \in Directories THEN "dir"
    ELSE IF \E d \in Directories : \E n \in 1..Len(readdir(d)) : path = Child(d, readdir(d)[n])
         THEN "file"
    ELSE "none"

fileExtensions == {"js", "ts", "py", "go", "rs", "java", "cpp", "c", "h"}

\* entry.split('.').pop()
Ext(entry) ==
    LET n == LastIndexFrom(entry, {"."}, Len(entry))
    IN  SubSeq(entry, n + 1, Len(entry))

moduleFiles ==
    <<Name("package", "json"), Name("go", "mod"), Name("Cargo", "toml"), Name("pom", "xml"),
      Name("build", "gradle"), Name("requirements", "txt"), Name("setup", "py"),
      Name("pyproject", "toml")>>

\* what the service may answer: prose around a JSON object, and prose alone
AnalysisA == Obj(<<Member(<<"summary">>, Str(<<"a">>)), Member(<<"confidence">>, Num(<<"1">>))>>)
GoodText == <<"noise", " ">> \o JSONStringify(AnalysisA) \o <<" ", "noise">>
ProseText == <<"noise", " ", "noise">>
ServiceTexts == {GoodText, ProseText}
Responses == {CallFailed} \cup {Responded(t) : t \in ServiceTexts}

\* the object analyzeContent returns from its catch block
FailedAnalysis(path) ==
    Obj(<<Member(<<"summary">>, Str(<<"Analysis failed for ">> \o path)),
          Member(<<"insights">>, Arr(<<Str(<<"Analysis unavailable">>)>>)),
          Member(<<"entities">>, Obj(<<>>)),
          Member(<<"patterns">>, Arr(<<>>)),
          Member(<<"relationships">>, Arr(<<>>)),
          Member(<<"confidence">>, Num(<<"0">>))>>)

\* the object generateDeepDiveSummary returns from its catch block
SummaryPlaceholder ==
    Obj(<<Member(<<"summary">>, Str(<<"Deep dive analysis completed">>)),
          Member(<<"architecture">>, Str(<<"Analysis available in individual notes">>)),
          Member(<<"patterns">>, Arr(<<>>)),
          Member(<<"insights">>, Arr(<<>>)),
          Member(<<"recommendations">>, Arr(<<>>)),
          Member(<<"confidence">>, Num(<<"0">>))>>)

(***************************************************************************)
(* NotesCache.loadNote and NotesCache.saveNote                             *)
(***************************************************************************)
\* the paths of the repository, and getNotePath of each, computed once
RepositoryPaths ==
    Directories \cup UNION {{Child(d, readdir(d)[n]) : n \in 1..Len(readdir(d))} : d \in Directories}
KnownNotePaths ==
    [level \in Levels |-> [path \in RepositoryPaths |-> getNotePath(path, level)]]

\* this.getNotePath(path, level)
notePathOf(path, level) ==
    IF path \in RepositoryPaths THEN KnownNotePaths[level][path] ELSE getNotePath(path, level)

\* a note file whose text JSON.parse rejects
Malformed == [malformed |-> TRUE]

\* a faulty tryLoadNote: no try / catch around readFile and JSON.parse
tryLoadNoteNoCatch(store, path, level, readOk) ==
    LET notePath == notePathOf(path, level)
    IN  IF notePath \notin DOMAIN store THEN [threw |-> FALSE, v |-> Null]
        ELSE IF ~readOk \/ store[notePath] = Malformed THEN [threw |-> TRUE, v |-> Null]
        ELSE [threw |-> FALSE, v |-> store[notePath]]

\* NotesCache.loadNote as [threw, v]: null when existsSync is false, null
\* from the catch block when readFile throws (readOk is false) or
\* JSON.parse throws, and the parsed file otherwise
tryLoadNote(store, path, level, readOk) ==
    LET notePath == notePathOf(path, level)
    IN  IF notePath \notin DOMAIN store THEN [threw |-> FALSE, v |-> Null]
        ELSE IF ~readOk \/ store[notePath] = Malformed THEN [threw |-> FALSE, v |-> Null]
        ELSE [threw |-> FALSE, v |-> store[notePath]]

\* loadNote when the note file, if there is one, can be read
loadNote(store, path, level) == tryLoadNote(store, path, level, TRUE).v

\* the analyses a run can save, and JSON.stringify(note).length of each,
\* computed once
KnownNotes == {AnalysisA} \cup {FailedAnalysis(path) : path \in RepositoryPaths}
KnownSizes == [note \in KnownNotes |-> Len(JSONStringify(note))]

\* JSON.stringify(note).length
stringifiedLength(note) ==
    IF note \in KnownNotes THEN KnownSizes[note] ELSE Len(JSONStringify(note))

noteData(path, note, level, dateNow) ==
    [agent |-> agentId, path |-> path, level |-> level, timestamp |-> dateNow,
     content |-> note,
     metadata |-> [size |-> stringifiedLength(note), version |-> "1.0.0"]]

\* the store after writeFile(notePath, JSON.stringify(noteData))
saveNote(store, path, note, level, dateNow) ==
    LET notePath == notePathOf(path, level)
    IN  [k \in DOMAIN store \cup {notePath} |->
            IF k = notePath THEN noteData(path, note, level, dateNow) ELSE store[k]]

\* callWithJSON of each response the service may give
ServiceResult == [response \in Responses |-> callWithJSON(response)]

\* a faulty analyzeContent: the catch block returns null
analyzeContentOrNull(path, response) ==
    LET r == ServiceResult[response]
    IN  IF r.ok THEN r.v ELSE Null

analyzeContent(path, response) ==
    LET r == ServiceResult[response]
    IN  IF r.ok THEN r.v ELSE FailedAnalysis(path)

\* how the service call of a step ended
Outcome(response) ==
    IF ~response.ok THEN "CALL_FAIL"
    ELSE IF ServiceResult[response].ok THEN "PARSE_OK" ELSE "PARSE_FAIL"

(***************************************************************************)
(* analyzeFile / analyzeDirectory / analyzeModule: one per-item step.      *)
(* The three methods have the same body up to the level and the content    *)
(* they read.  The result is what the step does: the value returned (ret), *)
(* whether saveNote threw (threw), the store afterwards and the service    *)
(* calls made.  diskOk is whether writeFile succeeds.                      *)
(***************************************************************************)
\* the cache-hit return
cacheHit(store, existingNote) ==
    [outcome |-> "CACHE_HIT", ret |-> existingNote, threw |-> FALSE,
     store |-> store, called |-> 0]

\* a faulty cacheMiss: only an analysis that was parsed from the response is
\* saved
cacheMissSkipFailed(store, dateNow, path, level, analysis, outcome, diskOk) ==
    IF analysis = Null
    THEN [outcome |-> outcome, ret |-> Null, threw |-> FALSE, store |-> store, called |-> 1]
    ELSE IF outcome # "PARSE_OK"
    THEN [outcome |-> outcome, ret |-> analysis, threw |-> FALSE, store |-> store, called |-> 1]
    ELSE IF diskOk
    THEN [outcome |-> outcome, ret |-> analysis, threw |-> FALSE,
          store |-> saveNote(store, path, analysis, level, dateNow), called |-> 1]
    ELSE [outcome |-> outcome, ret |-> Null, threw |-> TRUE, store |-> store, called |-> 1]

\* after analyzeContent: if (analysis) saveNote(...); return analysis
cacheMiss(store, dateNow, path, level, analysis, outcome, diskOk) ==
    IF analysis = Null
    THEN [outcome |-> outcome, ret |-> Null, threw |-> FALSE, store |-> store, called |-> 1]
    ELSE IF diskOk
    THEN [outcome |-> outcome, ret |-> analysis, threw |-> FALSE,
          store |-> saveNote(store, path, analysis, level, dateNow), called |-> 1]
    ELSE [outcome |-> outcome, ret |-> Null, threw |-> TRUE, store |-> store, called |-> 1]

\* a faulty reuseOrAnalyze: the existing note is never reused
reuseOrAnalyzeAlways(existingNote, store, dateNow, path, level, response, diskOk) ==
    cacheMiss(store, dateNow, path, level, analyzeContent(path, response),
              Outcome(response), diskOk)

reuseOrAnalyze(existingNote, store, dateNow, path, level, response, diskOk) ==
    IF existingNote # Null /\ isNoteRecent(existingNote, dateNow, DefaultMaxAge)
    THEN cacheHit(store, existingNote)
    ELSE cacheMiss(store, dateNow, path, level, analyzeContent(path, response),
                   Outcome(response), diskOk)

analyzeItem(store, dateNow, path, level, response, diskOk) ==
    reuseOrAnalyze(loadNote(store, path, level), store, dateNow, path, level, response, diskOk)

analyzeFile(store, dateNow, filePath, response, diskOk) ==
    analyzeItem(store, dateNow, filePath, "file", response, diskOk)

analyzeDirectory(store, dateNow, dirPath, response, diskOk) ==
    analyzeItem(store, dateNow, dirPath, "directory", response, diskOk)

analyzeModule(store, dateNow, modulePath, response, diskOk) ==
    analyzeItem(store, dateNow, modulePath, "module", response, diskOk)

(***************************************************************************)
(* deepDiveAnalysis as a state machine.  A frame of stack is one running   *)
(* call of analyzeFilesRecursive or analyzeDirectoriesRecursive: its       *)
(* directory, the entries (or subdirectories) still to visit, the depth    *)
(* left, and todo = the call has not yet analyzed its own directory.       *)
(***************************************************************************)
Frame(dir, entries, depth, todo) ==
    [dir |-> dir, entries |-> entries, depth |-> depth, todo |-> todo]

Top == stack[Len(stack)]
Pop == SubSeq(stack, 1, Len(stack) - 1)
ReplaceTop(f) == Append(Pop, f)

NoStep == [n |-> 0, path |-> <<>>, level |-> "none", outcome |-> "none",
           ret |-> Null, threw |-> FALSE, ioFail |-> FALSE,
           fresh |-> FALSE, called |-> 0, wrote |-> FALSE]

\* a note for (path, level) is in the store and is recent at dateNow
hasFreshNote(store, dateNow, path, level) ==
    /\ loadNote(store, path, level) # Null
    /\ isNoteRecent(loadNote(store, path, level), dateNow, DefaultMaxAge)

\* the record of a per-item step that started in the current state:
\* ioFail = a writeFile of the step failed, fresh = a recent note was in the
\* store when it started, called = service calls it made, wrote = it
\* changed the store
StepRecord(path, level, r, diskOk) ==
    [n |-> last.n + 1, path |-> path, level |-> level, outcome |-> r.outcome,
     ret |-> r.ret, threw |-> r.threw, ioFail |-> (r.called = 1 /\ ~diskOk),
     fresh |-> hasFreshNote(notes, now, path, level), called |-> r.called,
     wrote |-> (r.store # notes)]

\* the value the latest cache-miss step of (path, level) returned
Remember(path, level, r) ==
    IF r.outcome = "CACHE_HIT" \/ r.threw THEN returned
    ELSE [k \in DOMAIN returned \cup {<<path, level>>} |->
            IF k = <<path, level>> THEN r.ret ELSE returned[k]]

Item(path, analysis) == [path |-> path, analysis |-> analysis]

\* entries.filter: the non-dot subdirectories of dirPath, in readdir order
RECURSIVE SubdirsOf(_, _)
SubdirsOf(dirPath, entries) ==
    IF entries = <<>> THEN <<>>
    ELSE LET fullPath == Child(dirPath, Head(entries))
             rest == SubdirsOf(dirPath, Tail(entries))
         IN  IF Head(entries)[1] # "." /\ statKind(fullPath) = "dir"
             THEN <<fullPath>> \o rest ELSE rest

freshIdle == fIn = Null /\ fOut = Null
jsonIdle == jIn = Null /\ jOut = Null
keyIdle == kIn = Null /\ kOut = Null
storeIdle == disk = Null /\ hist = Null /\ op = Null
walkIdle == tIn = Null /\ tOut = Null
travIdle == vIn = Null /\ vStack = Null /\ vOut = Null
coachIdle == cSess = Null

\* the process before deepDiveAnalysis is called
NotStarted ==
    [summaryCalls |-> 0, summaryFailed |-> FALSE, readErr |-> FALSE, exit |-> -1,
     character |-> TRUE]

InitMain ==
    /\ notes = <<>>
    /\ now = 0
    /\ ticks = 0
    /\ phase = "idle"
    /\ stack = <<>>
    /\ maxDepth = 0
    /\ modIdx = 0
    /\ results = [files |-> <<>>, directories |-> <<>>, modules |-> <<>>]
    /\ summary = Null
    /\ run = NotStarted
    /\ calls = 0
    /\ ioErr = FALSE
    /\ diskFaults = 0
    /\ last = NoStep
    /\ returned = <<>>

Init == InitMain /\ travIdle /\ coachIdle /\ freshIdle /\ jsonIdle /\ keyIdle /\ storeIdle /\ walkIdle

DepthChoices == {0, 2}

\* deepDiveAnalysis(repoPath, {maxDepth}) up to the first call of
\* analyzeFilesRecursive
StartRun(depth) ==
    /\ phase \in {"idle", "done", "failed"}
    /\ phase' = "files"
    /\ maxDepth' = depth
    /\ stack' = IF depth <= 0 THEN <<>> ELSE <<Frame(repoPath, readdir(repoPath), depth, FALSE)>>
    /\ modIdx' = 0
    /\ results' = [files |-> <<>>, directories |-> <<>>, modules |-> <<>>]
    /\ summary' = Null
    /\ run' = NotStarted
    /\ calls' = 0
    /\ ioErr' = FALSE
    /\ last' = NoStep
    /\ UNCHANGED <<notes, now, ticks, diskFaults, returned, pureVars>>

\* a faulty exitCode: the failure code whatever happened
exitCodeAlwaysFailure(threw) == 1

\* runDeepDive: process.exit(0) after deepDiveAnalysis returned and the
\* results were printed, process.exit(1) from the catch block
exitCode(threw) == IF threw THEN 1 ELSE 0

\* runDeepDive: new ModelAdapter(...) throws for a missing key, or
\* loadCharacters throws: the catch block exits before deepDiveAnalysis
SetupFails ==
    /\ phase \in {"idle", "done", "failed"}
    /\ phase' = "failed"
    /\ maxDepth' = 0
    /\ stack' = <<>>
    /\ modIdx' = 0
    /\ results' = [files |-> <<>>, directories |-> <<>>, modules |-> <<>>]
    /\ summary' = Null
    /\ run' = [NotStarted EXCEPT !.exit = exitCode(TRUE)]
    /\ calls' = 0
    /\ ioErr' = FALSE
    /\ last' = NoStep
    /\ UNCHANGED <<notes, now, ticks, diskFaults, returned, pureVars>>

\* time passes between two runs
Tick(d) ==
    /\ phase = "done"
    /\ ticks < MaxTicks
    /\ ticks' = ticks + 1
    /\ now' = now + d
    /\ UNCHANGED <<notes, phase, stack, maxDepth, modIdx, results, summary, run, calls, ioErr, diskFaults, last, returned, pureVars>>

\* analyzeFilesRecursive: the loop is over, or the catch block ran: return
FilesReturn ==
    /\ phase = "files" /\ stack # <<>> /\ Top.entries = <<>>
    /\ stack' = Pop
    /\ UNCHANGED <<notes, now, ticks, phase, maxDepth, modIdx, results, summary, run, calls, ioErr, diskFaults, last, returned, pureVars>>

\* analyzeFilesRecursive: a dot entry, or a file whose extension is not listed
FilesSkip ==
    /\ phase = "files" /\ stack # <<>> /\ Top.entries # <<>>
    /\ LET entry == Head(Top.entries)
           fullPath == Child(Top.dir, entry)
       IN  \/ entry[1] = "."
           \/ statKind(fullPath) = "file" /\ Ext(entry) \notin {<<e>> : e \in fileExtensions}
    /\ stack' = ReplaceTop([Top EXCEPT !.entries = Tail(@)])
    /\ UNCHANGED <<notes, now, ticks, phase, maxDepth, modIdx, results, summary, run, calls, ioErr, diskFaults, last, returned, pureVars>>

\* analyzeFilesRecursive: a directory entry, the recursive call
FilesEnter ==
    /\ phase = "files" /\ stack # <<>> /\ Top.entries # <<>>
    /\ LET entry == Head(Top.entries)
           fullPath == Child(Top.dir, entry)
           caller == [Top EXCEPT !.entries = Tail(@)]
       IN  /\ entry[1] # "." /\ statKind(fullPath) = "dir"
           /\ stack' = IF Top.depth - 1 <= 0 THEN ReplaceTop(caller)
                       ELSE Append(ReplaceTop(caller),
                                   Frame(fullPath, readdir(fullPath), Top.depth - 1, FALSE))
    /\ UNCHANGED <<notes, now, ticks, phase, maxDepth, modIdx, results, summary, run, calls, ioErr, diskFaults, last, returned, pureVars>>

\* analyzeFilesRecursive: a file entry with a listed extension; a throw of
\* analyzeFile lands in the catch block of this call, which returns
FilesAnalyze(response, diskOk) ==
    /\ diskOk \/ diskFaults < MaxDiskFaults
    /\ phase = "files" /\ stack # <<>> /\ Top.entries # <<>>
    /\ \E entry \in {Head(Top.entries)} : \E fullPath \in {Child(Top.dir, entry)} :
       /\ entry[1] # "." /\ statKind(fullPath) = "file"
       /\ Ext(entry) \in {<<e>> : e \in fileExtensions}
       /\ run.character \/ hasFreshNote(notes, now, fullPath, "file")
       /\ \E r \in {analyzeFile(notes, now, fullPath, response, diskOk)} :
           /\ notes' = r.store
           /\ calls' = calls + r.called
           /\ last' = StepRecord(fullPath, "file", r, diskOk)
           /\ returned' = Remember(fullPath, "file", r)
           /\ ioErr' = (ioErr \/ r.threw)
           /\ diskFaults' = diskFaults + (IF r.threw THEN 1 ELSE 0)
           /\ results' = IF r.threw \/ r.ret = Null THEN results
                         ELSE [results EXCEPT !.files = Append(@, Item(fullPath, r.ret))]
           /\ stack' = IF r.threw THEN ReplaceTop([Top EXCEPT !.entries = <<>>])
                       ELSE ReplaceTop([Top EXCEPT !.entries = Tail(@)])
    /\ UNCHANGED <<now, ticks, phase, maxDepth, modIdx, summary, run, pureVars>>

\* analyzeFile when no recent note exists and readFile throws: return null
analyzeFileUnreadable(store, dateNow, filePath) ==
    [outcome |-> "READ_FAIL", ret |-> Null, threw |-> FALSE, store |-> store, called |-> 0]

\* analyzeFilesRecursive: a file entry with a listed extension that has no
\* recent note and cannot be read: analyzeFile returns null, nothing is pushed
FilesReadFails ==
    /\ diskFaults < MaxDiskFaults
    /\ phase = "files" /\ stack # <<>> /\ Top.entries # <<>>
    /\ \E entry \in {Head(Top.entries)} : \E fullPath \in {Child(Top.dir, entry)} :
       /\ entry[1] # "." /\ statKind(fullPath) = "file"
       /\ Ext(entry) \in {<<e>> : e \in fileExtensions}
       /\ ~hasFreshNote(notes, now, fullPath, "file")
       /\ last' = StepRecord(fullPath, "file", analyzeFileUnreadable(notes, now, fullPath), TRUE)
    /\ stack' = ReplaceTop([Top EXCEPT !.entries = Tail(@)])
    /\ diskFaults' = diskFaults + 1
    /\ run' = [run EXCEPT !.readErr = TRUE]
    /\ UNCHANGED <<notes, now, ticks, phase, maxDepth, modIdx, results, summary, calls, ioErr, returned, pureVars>>

\* analyzeFilesRecursive: readdir(dirPath) or stat(fullPath) throws: the
\* catch block ends the loop of this call
FilesListFails ==
    /\ diskFaults < MaxDiskFaults
    /\ phase = "files" /\ stack # <<>> /\ Top.entries # <<>>
    /\ Head(Top.entries)[1] # "."
    /\ stack' = ReplaceTop([Top EXCEPT !.entries = <<>>])
    /\ diskFaults' = diskFaults + 1
    /\ run' = [run EXCEPT !.readErr = TRUE]
    /\ UNCHANGED <<notes, now, ticks, phase, maxDepth, modIdx, results, summary, calls, ioErr, last, returned, pureVars>>

\* results.files is complete; deepDiveAnalysis calls analyzeDirectoriesRecursive
FilesDone ==
    /\ phase = "files" /\ stack = <<>>
    /\ phase' = "directories"
    /\ stack' = IF maxDepth <= 0 THEN <<>> ELSE <<Frame(repoPath, <<>>, maxDepth, TRUE)>>
    /\ UNCHANGED <<notes, now, ticks, maxDepth, modIdx, results, summary, run, calls, ioErr, diskFaults, last, returned, pureVars>>

\* analyzeDirectoriesRecursive: readdir, collect subdirs, analyzeDirectory;
\* a throw of analyzeDirectory lands in the catch block, which returns
DirsAnalyze(response, diskOk) ==
    /\ diskOk \/ diskFaults < MaxDiskFaults
    /\ phase = "directories" /\ stack # <<>> /\ Top.todo
    /\ run.character \/ hasFreshNote(notes, now, Top.dir, "directory")
    /\ \E r \in {analyzeDirectory(notes, now, Top.dir, response, diskOk)} :
           /\ notes' = r.store
           /\ calls' = calls + r.called
           /\ last' = StepRecord(Top.dir, "directory", r, diskOk)
           /\ returned' = Remember(Top.dir, "directory", r)
           /\ ioErr' = (ioErr \/ r.threw)
           /\ diskFaults' = diskFaults + (IF r.threw THEN 1 ELSE 0)
           /\ results' = IF r.threw \/ r.ret = Null THEN results
                         ELSE [results EXCEPT !.directories = Append(@, Item(Top.dir, r.ret))]
           /\ stack' = IF r.threw THEN ReplaceTop(Frame(Top.dir, <<>>, Top.depth, FALSE))
                       ELSE ReplaceTop(Frame(Top.dir, SubdirsOf(Top.dir, readdir(Top.dir)),
                                             Top.depth, FALSE))
    /\ UNCHANGED <<now, ticks, phase, maxDepth, modIdx, summary, run, pureVars>>

\* analyzeDirectoriesRecursive: readdir(dirPath) or a stat throws before
\* analyzeDirectory: the catch block returns no result for this call
DirsListFails ==
    /\ diskFaults < MaxDiskFaults
    /\ phase = "directories" /\ stack # <<>> /\ Top.todo
    /\ stack' = ReplaceTop(Frame(Top.dir, <<>>, Top.depth, FALSE))
    /\ diskFaults' = diskFaults + 1
    /\ run' = [run EXCEPT !.readErr = TRUE]
    /\ UNCHANGED <<notes, now, ticks, phase, maxDepth, modIdx, results, summary, calls, ioErr, last, returned, pureVars>>

\* analyzeDirectoriesRecursive: the recursive call for the next subdir
DirsEnter ==
    /\ phase = "directories" /\ stack # <<>> /\ ~Top.todo /\ Top.entries # <<>>
    /\ LET caller == [Top EXCEPT !.entries = Tail(@)]
       IN  stack' = IF Top.depth - 1 <= 0 THEN ReplaceTop(caller)
                    ELSE Append(ReplaceTop(caller),
                                Frame(Head(Top.entries), <<>>, Top.depth - 1, TRUE))
    /\ UNCHANGED <<notes, now, ticks, phase, maxDepth, modIdx, results, summary, run, calls, ioErr, diskFaults, last, returned, pureVars>>

DirsReturn ==
    /\ phase = "directories" /\ stack # <<>> /\ ~Top.todo /\ Top.entries = <<>>
    /\ stack' = Pop
    /\ UNCHANGED <<notes, now, ticks, phase, maxDepth, modIdx, results, summary, run, calls, ioErr, diskFaults, last, returned, pureVars>>

\* analyzeModules: the index of the first manifest from i on that stat
\* reports as a file (stat throws for a missing one, which the loop's
\* catch block ignores), or Len(moduleFiles) + 1
RECURSIVE NextManifest(_)
NextManifest(i) ==
    IF i > Len(moduleFiles) THEN i
    ELSE IF statKind(Child(repoPath, moduleFiles[i])) = "file" THEN i
    ELSE NextManifest(i + 1)

DirsDone ==
    /\ phase = "directories" /\ stack = <<>>
    /\ phase' = "modules"
    /\ modIdx' = NextManifest(1)
    /\ UNCHANGED <<notes, now, ticks, stack, maxDepth, results, summary, run, calls, ioErr, diskFaults, last, returned, pureVars>>

\* analyzeModules: one manifest that exists; a throw of analyzeModule is
\* caught inside the loop, which goes on with the next manifest
ModulesAnalyze(response, diskOk) ==
    /\ diskOk \/ diskFaults < MaxDiskFaults
    /\ phase = "modules" /\ modIdx <= Len(moduleFiles)
    /\ \E modulePath \in {Child(repoPath, moduleFiles[modIdx])} :
       /\ run.character \/ hasFreshNote(notes, now, modulePath, "module")
       /\ \E r \in {analyzeModule(notes, now, modulePath, response, diskOk)} :
           /\ notes' = r.store
           /\ calls' = calls + r.called
           /\ last' = StepRecord(modulePath, "module", r, diskOk)
           /\ returned' = Remember(modulePath, "module", r)
           /\ ioErr' = (ioErr \/ r.threw)
           /\ diskFaults' = diskFaults + (IF r.threw THEN 1 ELSE 0)
           /\ results' = IF r.threw \/ r.ret = Null THEN results
                         ELSE [results EXCEPT !.modules = Append(@, Item(modulePath, r.ret))]
    /\ modIdx' = NextManifest(modIdx + 1)
    /\ UNCHANGED <<now, ticks, phase, stack, maxDepth, summary, run, pureVars>>

ModulesDone ==
    /\ phase = "modules" /\ modIdx > Len(moduleFiles)
    /\ phase' = "summary"
    /\ UNCHANGED <<notes, now, ticks, stack, maxDepth, modIdx, results, summary, run, calls, ioErr, diskFaults, last, returned, pureVars>>

\* a faulty generateDeepDiveSummary: no catch block
generateDeepDiveSummaryNoCatch(response) ==
    LET r == ServiceResult[response]
    IN  IF r.ok THEN [threw |-> FALSE, v |-> r.v] ELSE [threw |-> TRUE, v |-> Null]

\* [threw, v]: the one callWithJSON of the summary, inside try / catch
generateDeepDiveSummary(response) ==
    LET r == ServiceResult[response]
    IN  IF r.ok THEN [threw |-> FALSE, v |-> r.v]
        ELSE [threw |-> FALSE, v |-> SummaryPlaceholder]

\* deepDiveAnalysis: results.summary and return; runDeepDive: exit
Summarize(response) ==
    /\ phase = "summary" /\ run.character
    /\ \E s \in {generateDeepDiveSummary(response)} :
           /\ summary' = s.v
           /\ phase' = IF s.threw THEN "failed" ELSE "done"
           /\ run' = [run EXCEPT !.summaryCalls = @ + 1,
                                  !.summaryFailed = ~ServiceResult[response].ok,
                                  !.exit = exitCode(s.threw)]
    /\ calls' = calls + 1
    /\ UNCHANGED <<notes, now, ticks, stack, maxDepth, modIdx, results, ioErr, diskFaults, last, returned, pureVars>>

Next ==
    \/ \E depth \in DepthChoices : StartRun(depth)
    \/ SetupFails
    \/ FilesReadFails
    \/ FilesListFails
    \/ DirsListFails
    \/ \E d \in {DefaultMaxAge} : Tick(d)
    \/ FilesReturn
    \/ FilesSkip
    \/ FilesEnter
    \/ \E response \in Responses, diskOk \in BOOLEAN : FilesAnalyze(response, diskOk)
    \/ FilesDone
    \/ \E response \in Responses, diskOk \in BOOLEAN : DirsAnalyze(response, diskOk)
    \/ DirsEnter
    \/ DirsReturn
    \/ DirsDone
    \/ \E response \in Responses, diskOk \in BOOLEAN : ModulesAnalyze(response, diskOk)
    \/ ModulesDone
    \/ \E response \in Responses : Summarize(response)

Spec == Init /\ [][Next]_vars

(***************************************************************************)
(* A run whose agent id names no character of the loaded file.  The        *)
(* constructor of DeepDiveAnalyzer stores the id as it is.  getCharacter   *)
(* throws where it is called: in analyzeFile, analyzeDirectory and         *)
(* analyzeModule after the cache lookup and the read of the content, and   *)
(* at the start of generateDeepDiveSummary.                                *)
(***************************************************************************)
StartRunUnknownAgent(depth) ==
    /\ phase \in {"idle", "done", "failed"}
    /\ phase' = "files"
    /\ maxDepth' = depth
    /\ stack' = IF depth <= 0 THEN <<>> ELSE <<Frame(repoPath, readdir(repoPath), depth, FALSE)>>
    /\ modIdx' = 0
    /\ results' = [files |-> <<>>, directories |-> <<>>, modules |-> <<>>]
    /\ summary' = Null
    /\ run' = [NotStarted EXCEPT !.character = FALSE]
    /\ calls' = 0
    /\ ioErr' = FALSE
    /\ last' = NoStep
    /\ UNCHANGED <<notes, now, ticks, diskFaults, returned, pureVars>>

\* the per-item step in which getCharacter throws: nothing is returned,
\* nothing is saved, no service call is made
characterNotFound(store) ==
    [outcome |-> "NO_CHARACTER", ret |-> Null, threw |-> TRUE, store |-> store, called |-> 0]

\* analyzeFile throws: the catch block of analyzeFilesRecursive ends the
\* loop of this call
FilesCharacterMissing ==
    /\ ~run.character
    /\ phase = "files" /\ stack # <<>> /\ Top.entries # <<>>
    /\ \E entry \in {Head(Top.entries)} : \E fullPath \in {Child(Top.dir, entry)} :
       /\ entry[1] # "." /\ statKind(fullPath) = "file"
       /\ Ext(entry) \in {<<e>> : e \in fileExtensions}
       /\ ~hasFreshNote(notes, now, fullPath, "file")
       /\ last' = StepRecord(fullPath, "file", characterNotFound(notes), TRUE)
    /\ stack' = ReplaceTop([Top EXCEPT !.entries = <<>>])
    /\ UNCHANGED <<notes, now, ticks, phase, maxDepth, modIdx, results, summary, run, calls, ioErr, diskFaults, returned, pureVars>>

\* analyzeDirectory throws: the catch block of analyzeDirectoriesRecursive
\* returns no result for this call and does not go into the subdirectories
DirsCharacterMissing ==
    /\ ~run.character
    /\ phase = "directories" /\ stack # <<>> /\ Top.todo
    /\ ~hasFreshNote(notes, now, Top.dir, "directory")
    /\ last' = StepRecord(Top.dir, "directory", characterNotFound(notes), TRUE)
    /\ stack' = ReplaceTop(Frame(Top.dir, <<>>, Top.depth, FALSE))
    /\ UNCHANGED <<notes, now, ticks, phase, maxDepth, modIdx, results, summary, run, calls, ioErr, diskFaults, returned, pureVars>>

\* analyzeModule throws: caught inside the loop of analyzeModules
ModulesCharacterMissing ==
    /\ ~run.character
    /\ phase = "modules" /\ modIdx <= Len(moduleFiles)
    /\ \E modulePath \in {Child(repoPath, moduleFiles[modIdx])} :
       /\ ~hasFreshNote(notes, now, modulePath, "module")
       /\ last' = StepRecord(modulePath, "module", characterNotFound(notes), TRUE)
    /\ modIdx' = NextManifest(modIdx + 1)
    /\ UNCHANGED <<notes, now, ticks, phase, stack, maxDepth, results, summary, run, calls, ioErr, diskFaults, returned, pureVars>>

\* generateDeepDiveSummary throws before its try: deepDiveAnalysis throws
\* and the catch block of runDeepDive exits
SummaryCharacterMissing ==
    /\ ~run.character
    /\ phase = "summary"
    /\ phase' = "failed"
    /\ run' = [run EXCEPT !.exit = exitCode(TRUE)]
    /\ UNCHANGED <<notes, now, ticks, stack, maxDepth, modIdx, results, summary, calls, ioErr, diskFaults, last, returned, pureVars>>

NextUnknownAgent ==
    \/ Next
    \/ \E depth \in DepthChoices : StartRunUnknownAgent(depth)
    \/ FilesCharacterMissing
    \/ DirsCharacterMissing
    \/ ModulesCharacterMissing
    \/ SummaryCharacterMissing

SpecUnknownAgent == Init /\ [][NextUnknownAgent]_vars

(***************************************************************************)
(* A run in which the Model Invocation Service may never answer.  call()   *)
(* awaits fetch without a timeout or an abort signal, so the step that     *)
(* made the call, and with it the run, waits for as long as the service    *)
(* is silent.                                                              *)
(***************************************************************************)
\* the next step of the run makes a service call
CallDue ==
    \/ /\ phase = "files" /\ stack # <<>> /\ Top.entries # <<>>
       /\ LET entry == Head(Top.entries)
              fullPath == Child(Top.dir, entry)
          IN  /\ entry[1] # "." /\ statKind(fullPath) = "file"
              /\ Ext(entry) \in {<<e>> : e \in fileExtensions}
              /\ ~hasFreshNote(notes, now, fullPath, "file")
    \/ /\ phase = "directories" /\ stack # <<>> /\ Top.todo
       /\ ~hasFreshNote(notes, now, Top.dir, "directory")
    \/ /\ phase = "modules" /\ modIdx <= Len(moduleFiles)
       /\ ~hasFreshNote(notes, now, Child(repoPath, moduleFiles[modIdx]), "module")
    \/ phase = "summary"

\* await fetch(...) of a call that is never answered
ServiceNeverResponds ==
    /\ run.character /\ CallDue
    /\ phase' = "awaiting"
    /\ calls' = calls + 1
    /\ UNCHANGED <<notes, now, ticks, stack, maxDepth, modIdx, results, summary, run, ioErr, diskFaults, last, returned, pureVars>>

NextSilentService == Next \/ ServiceNeverResponds

\* the run is one chain of awaited calls: a step that can be taken is taken
SpecSilentService == Init /\ [][NextSilentService]_vars /\ WF_vars(NextSilentService)

(***************************************************************************)
(* isNoteRecent applied to one drawn input                                 *)
(***************************************************************************)
MaxAges == {DefaultMaxAge, 60 * 1000}

FreshInputs ==
    UNION {UNION {{[timestamp |-> ts, now |-> ts + base + d, maxAge |-> m] :
                        d \in (0 - MaxSkew)..MaxSkew, ts \in 0..MaxSkew} :
                   base \in {0, m}} :
           m \in MaxAges}

NotApplied == [done |-> FALSE, recent |-> FALSE]

InitFresh ==
    /\ InitMain /\ travIdle /\ coachIdle /\ jsonIdle /\ keyIdle /\ storeIdle /\ walkIdle
    /\ fIn \in FreshInputs
    /\ fOut = NotApplied

ApplyIsNoteRecent ==
    /\ ~fOut.done
    /\ fOut' = [done |-> TRUE,
                recent |-> isNoteRecent([timestamp |-> fIn.timestamp], fIn.now, fIn.maxAge)]
    /\ UNCHANGED <<fIn, mainVars, jsonVars, keyVars, storeVars, walkVars, travVars, coachVars>>

NextFresh == ApplyIsNoteRecent

SpecFresh == InitFresh /\ [][NextFresh]_vars

(***************************************************************************)
(* callWithJSON applied to one drawn response text                         *)
(***************************************************************************)
JsonStrings == {<<>>, <<"a">>, <<"{">>, <<"}">>, <<"[">>, <<"]">>}
JsonKeys == {<<"a">>, <<"}">>, <<"]">>}
JsonScalars == {Num(<<"1">>), Num(<<"1", "0">>)} \cup {Str(x) : x \in JsonStrings}

\* the arrays of at most n elements of S, and the objects of at most two
\* members with values in S
ContainersOf(S, n) ==
    {Arr(xs) : xs \in SeqsUpTo(S, n)}
    \cup {Obj(<<>>)}
    \cup {Obj(<<Member(k, x)>>) : k \in JsonKeys, x \in S}
    \cup {Obj(<<Member(<<"a">>, x), Member(k, y)>>) : k \in JsonKeys \ {<<"a">>}, x \in S, y \in S}

JsonNested(flat) ==
    {Arr(<<x>>) : x \in flat}
    \cup {Arr(<<x, y>>) : x \in JsonScalars, y \in flat}
    \cup {Obj(<<Member(k, x)>>) : k \in JsonKeys, x \in flat}
\* scalars, containers of scalars, and containers of those
JsonValues(n) ==
    JsonScalars \cup ContainersOf(JsonScalars, n) \cup JsonNested(ContainersOf(JsonScalars, n))

TextAlphabet == {"{", "}", "[", "]", Quote, ":", ",", "1", " ", "noise"}
RawTexts(n) == SeqsUpTo(TextAlphabet, n)

\* "noise " + serialize(V) + " noise"
Noisy(v) == <<"noise", " ">> \o JSONStringify(v) \o <<" ", "noise">>

\* the texts "noise " + serialize(V) + " noise" for the values V with
\* containers of at most maxElems elements, and every text of at most
\* maxLen symbols
JsonInputs(maxElems, maxLen) ==
    {[rt |-> TRUE, v |-> v, text |-> Noisy(v)] : v \in JsonValues(maxElems)}
    \cup {[rt |-> FALSE, v |-> Null, text |-> t] : t \in RawTexts(maxLen)}

NotRun == [ok |-> FALSE, v |-> Null, err |-> "not run"]

InitJson ==
    /\ InitMain /\ travIdle /\ coachIdle /\ freshIdle /\ keyIdle /\ storeIdle /\ walkIdle
    /\ jIn \in JsonInputs(MaxElems, MaxTextLen)
    /\ jOut = [r |-> NotRun, braces |-> NotRun]

ApplyCallWithJSON ==
    /\ jOut.r = NotRun
    /\ jOut' = [jOut EXCEPT !.r = callWithJSON(Responded(jIn.text))]
    /\ UNCHANGED <<jIn, mainVars, freshVars, keyVars, storeVars, walkVars, travVars, coachVars>>

ApplyCallWithJSONBraces ==
    /\ jOut.braces = NotRun
    /\ jOut' = [jOut EXCEPT !.braces = callWithJSONBraces(Responded(jIn.text))]
    /\ UNCHANGED <<jIn, mainVars, freshVars, keyVars, storeVars, walkVars, travVars, coachVars>>

NextJson == ApplyCallWithJSON \/ ApplyCallWithJSONBraces

SpecJson == InitJson /\ [][NextJson]_vars

(***************************************************************************)
(* getNotePath applied to one drawn path                                   *)
(***************************************************************************)
PathAlphabet == {"root", "a", "/", ".", " ", "_"}
PathInputs(n) == SeqsUpTo(PathAlphabet, n)

NoKey == [done |-> FALSE, notePath |-> <<>>]

InitKey ==
    /\ InitMain /\ travIdle /\ coachIdle /\ freshIdle /\ jsonIdle /\ storeIdle /\ walkIdle
    /\ kIn \in {[path |-> p, level |-> l] : p \in PathInputs(MaxPathLen), l \in Levels}
    /\ kOut = NoKey

ApplyGetNotePath ==
    /\ ~kOut.done
    /\ kOut' = [done |-> TRUE, notePath |-> getNotePath(kIn.path, kIn.level)]
    /\ UNCHANGED <<kIn, mainVars, freshVars, jsonVars, storeVars, walkVars, travVars, coachVars>>

NextKey == ApplyGetNotePath

SpecKey == InitKey /\ [][NextKey]_vars

(***************************************************************************)
(* A NotesCache used on its own: saveNote, loadNote, clearNotes and        *)
(* loadContextualNotes in any order.  Date.now() is the number of          *)
(* operations that changed the note files so far.                          *)
(***************************************************************************)
MaxStoreOps == 2

\* the levels in the order loadNotesForPath tries them
LevelOrder == <<"file", "directory", "module", "package">>

loadNotesForPath(store, path) ==
    LET loaded == [n \in 1..Len(LevelOrder) |-> loadNote(store, path, LevelOrder[n])]
    IN  SelectSeq(loaded, LAMBDA note : note # Null)

\* parts.join('/')
RECURSIVE JoinSlash(_)
JoinSlash(parts) ==
    IF parts = <<>> THEN <<>>
    ELSE IF Len(parts) = 1 THEN parts[1]
    ELSE parts[1] \o <<"/">> \o JoinSlash(Tail(parts))

Min(a, b) == IF a <= b THEN a ELSE b

\* pathParts.slice(0, i).join('/') || '.'
currentPath(pathParts, i) ==
    LET joined == JoinSlash(SubSeq(pathParts, 1, i))
    IN  IF joined = <<>> THEN <<".">> ELSE joined

\* the notes of the entries of dirPath and, for an entry that is a
\* directory, of what is below it; readdir and stat failures are caught
RECURSIVE loadSubdirectoryNotes(_, _, _)
RECURSIVE loadEntryNotes(_, _, _, _)
loadSubdirectoryNotes(store, dirPath, depth) ==
    IF depth <= 0 THEN <<>> ELSE loadEntryNotes(store, dirPath, readdir(dirPath), depth)

loadEntryNotes(store, dirPath, entries, depth) ==
    IF entries = <<>> THEN <<>>
    ELSE LET entry == Head(entries)
             fullPath == Child(dirPath, entry)
             rest == loadEntryNotes(store, dirPath, Tail(entries), depth)
         IN  IF entry[1] = "." THEN rest
             ELSE loadNotesForPath(store, fullPath)
                  \o (IF statKind(fullPath) = "dir"
                      THEN loadSubdirectoryNotes(store, fullPath, depth - 1) ELSE <<>>)
                  \o rest

\* notes.sort((a, b) => b.timestamp - a.timestamp): most recent first,
\* notes of equal timestamp keeping their order
RECURSIVE SortNotes(_)
SortNotes(list) ==
    IF list = <<>> THEN <<>>
    ELSE LET x == list[Len(list)]
             sorted == SortNotes(SubSeq(list, 1, Len(list) - 1))
             ahead == SelectSeq(sorted, LAMBDA y : y.timestamp >= x.timestamp)
             behind == SelectSeq(sorted, LAMBDA y : y.timestamp < x.timestamp)
         IN  ahead \o <<x>> \o behind

RECURSIVE loadPrefixNotes(_, _, _, _)
\* the loop "for (let i = 0; i <= Math.min(pathParts.length, maxDepth); i++)"
loadPrefixNotes(store, pathParts, i, last_i) ==
    IF i > last_i THEN <<>>
    ELSE loadNotesForPath(store, currentPath(pathParts, i))
         \o loadPrefixNotes(store, pathParts, i + 1, last_i)

loadContextualNotes(store, targetPath, depth) ==
    LET pathParts == SplitPath(targetPath)
        above == loadPrefixNotes(store, pathParts, 0, Min(Len(pathParts), depth))
        below == IF statKind(targetPath) = "dir"
                 THEN loadSubdirectoryNotes(store, targetPath, depth - 1) ELSE <<>>
    IN  SortNotes(above \o below)

IsPrefix(pre, s) == Len(pre) <= Len(s) /\ SubSeq(s, 1, Len(pre)) = pre

\* dirname of a note path
dirname(notePath) == SubSeq(notePath, 1, Len(notePath) - 1)

\* the note files that are not at or below the directory dirPath
removeDirectory(store, dirPath) ==
    [k \in {k \in DOMAIN store : ~IsPrefix(dirPath, k)} |-> store[k]]

\* "if (path)" is false for null and for the empty string, both <<>> here
clearNotes(store, path) ==
    IF path # <<>>
    THEN removeDirectory(store, dirname(getNotePath(path, "file")))
    ELSE removeDirectory(store, PathJoin(<<notesPath>>))

StorePaths == {repoPath, LibDir, <<"a", " ", "b">>, <<"a", "_", "b">>}
StoreLevels == {"file", "directory"}
NoteContents == {Str(<<"a">>), Str(<<"b">>)}
ContextDepths == {1, 2}

NoHistory == [n |-> 0, saved |-> <<>>, onlySaves |-> TRUE]
NoOp == [kind |-> "none"]

\* loadNote and loadContextualNotes leave the note files as they are: what
\* can follow one of them is what can follow the operation before it, so a
\* behaviour is followed up to its first query and no state is lost
Queried == op.kind \in {"load", "context"}

InitStore ==
    /\ InitMain /\ travIdle /\ coachIdle /\ freshIdle /\ jsonIdle /\ keyIdle /\ walkIdle
    /\ disk = <<>>
    /\ hist = NoHistory
    /\ op = NoOp

Save(path, level, content) ==
    /\ ~Queried
    /\ hist.n < MaxStoreOps
    /\ disk' = saveNote(disk, path, content, level, hist.n)
    /\ hist' = [hist EXCEPT !.n = @ + 1,
                            !.saved = [k \in DOMAIN hist.saved \cup {<<path, level>>} |->
                                          IF k = <<path, level>> THEN content ELSE hist.saved[k]]]
    /\ op' = [kind |-> "save", path |-> path, level |-> level]
    /\ UNCHANGED <<mainVars, freshVars, jsonVars, keyVars, walkVars, travVars, coachVars>>

\* path is <<>> for clearNotes()
Clear(path) ==
    /\ ~Queried
    /\ hist.n < MaxStoreOps
    /\ disk' = clearNotes(disk, path)
    /\ hist' = [hist EXCEPT !.n = @ + 1, !.onlySaves = FALSE]
    /\ op' = [kind |-> "clear", path |-> path, before |-> disk]
    /\ UNCHANGED <<mainVars, freshVars, jsonVars, keyVars, walkVars, travVars, coachVars>>

\* a note file is damaged outside the program
Corrupt(path, level) ==
    /\ ~Queried
    /\ hist.n < MaxStoreOps
    /\ getNotePath(path, level) \in DOMAIN disk
    /\ disk[getNotePath(path, level)] # Malformed
    /\ disk' = [disk EXCEPT ![getNotePath(path, level)] = Malformed]
    /\ hist' = [hist EXCEPT !.n = @ + 1, !.onlySaves = FALSE]
    /\ op' = [kind |-> "corrupt", path |-> path, level |-> level]
    /\ UNCHANGED <<mainVars, freshVars, jsonVars, keyVars, walkVars, travVars, coachVars>>

Load(path, level, readOk) ==
    /\ ~Queried
    /\ \E r \in {tryLoadNote(disk, path, level, readOk)} :
          op' = [kind |-> "load", path |-> path, level |-> level, readOk |-> readOk,
                 threw |-> r.threw, v |-> r.v]
    /\ UNCHANGED <<disk, hist, mainVars, freshVars, jsonVars, keyVars, walkVars, travVars, coachVars>>

Context(path, depth) ==
    /\ ~Queried
    /\ op' = [kind |-> "context", path |-> path, maxDepth |-> depth,
              v |-> loadContextualNotes(disk, path, depth)]
    /\ UNCHANGED <<disk, hist, mainVars, freshVars, jsonVars, keyVars, walkVars, travVars, coachVars>>

NextStore ==
    \/ \E path \in StorePaths, level \in StoreLevels, content \in NoteContents :
          Save(path, level, content)
    \/ \E path \in StorePaths \cup {<<>>} : Clear(path)
    \/ \E path \in StorePaths, level \in StoreLevels : Corrupt(path, level)
    \/ \E path \in StorePaths, level \in StoreLevels, readOk \in BOOLEAN :
          Load(path, level, readOk)
    \/ \E path \in StorePaths, depth \in ContextDepths : Context(path, depth)

SpecStore == InitStore /\ [][NextStore]_vars

(***************************************************************************)
(* The repository walks applied to a drawn file system.                    *)
(* A file system gives, for each directory, the entries readdir returns,   *)
(* in the order it returns them.  An entry has a name, whether stat says   *)
(* it is a directory, whether it is a symbolic link (stat follows links)   *)
(* and the directory it leads to.  Resolving a path that goes through more *)
(* than LinkLimit symbolic links fails (ELOOP), so stat throws.            *)
(***************************************************************************)
MaxEntries == 2
LinkLimit == 2

File(name) == [name |-> name, isDir |-> FALSE, isLink |-> FALSE, to |-> "none"]
Dir(name, to) == [name |-> name, isDir |-> TRUE, isLink |-> FALSE, to |-> to]
Link(name, to) == [name |-> name, isDir |-> TRUE, isLink |-> TRUE, to |-> to]

\* entry.startsWith('.')
startsWithDot(entry) == entry # <<>> /\ entry[1] = "."

\* text.includes(part)
includes(text, part) ==
    \E n \in 0..(Len(text) - Len(part)) : SubSeq(text, n + 1, n + Len(part)) = part

\* text.replace(pattern, ''): the first occurrence of pattern removed
replaceFirst(text, pattern) ==
    LET at == {n \in 0..(Len(text) - Len(pattern)) :
                   SubSeq(text, n + 1, n + Len(pattern)) = pattern}
    IN  IF at = {} THEN text
        ELSE LET n == CHOOSE m \in at : \A k \in at : m <= k
             IN  SubSeq(text, 1, n) \o SubSeq(text, n + Len(pattern) + 1, Len(text))

\* the number of symbolic links on the way to an entry of a directory
\* that was reached through links of them
linksTo(links, entry) == IF entry.isLink THEN links + 1 ELSE links

\* stat(join(dirPath, entry)) throws
statThrows(links, entry) == linksTo(links, entry) > LinkLimit

\* DeepDiveAnalyzer.analyzeFilesRecursive: the files analyzed, in order,
\* each with the directory whose listing it was found in.  A throw of stat
\* is caught outside the loop, which ends the listing of that directory.
RECURSIVE analyzeFilesRecursive(_, _, _, _, _, _)
RECURSIVE analyzeFilesLoop(_, _, _, _, _, _, _)
analyzeFilesRecursive(fs, dirPath, id, extensions, depth, links) ==
    IF depth <= 0 THEN <<>>
    ELSE analyzeFilesLoop(fs, dirPath, id, fs[id], extensions, depth, links)

analyzeFilesLoop(fs, dirPath, id, entries, extensions, depth, links) ==
    IF entries = <<>> THEN <<>>
    ELSE LET entry == Head(entries)
             fullPath == Child(dirPath, entry.name)
             rest == analyzeFilesLoop(fs, dirPath, id, Tail(entries), extensions, depth, links)
         IN  IF startsWithDot(entry.name) THEN rest
             ELSE IF statThrows(links, entry) THEN <<>>
             ELSE IF ~entry.isDir
                  THEN (IF Ext(entry.name) \in {<<e>> : e \in extensions}
                        THEN <<[path |-> fullPath, dir |-> id]>> ELSE <<>>) \o rest
             ELSE analyzeFilesRecursive(fs, fullPath, entry.to, extensions, depth - 1,
                                        linksTo(links, entry))
                  \o rest

\* a post-order analyzeDirectoriesRecursive: the subdirectories are analyzed
\* before the directory itself
RECURSIVE analyzeDirectoriesPostOrder(_, _, _, _, _)
RECURSIVE analyzeSubdirsPostOrder(_, _, _, _, _)
analyzeDirectoriesPostOrder(fs, dirPath, id, depth, links) ==
    IF depth <= 0 THEN <<>>
    ELSE LET entries == SelectSeq(fs[id], LAMBDA entry : ~startsWithDot(entry.name))
             subdirs == SelectSeq(entries, LAMBDA entry : entry.isDir)
         IN  IF \E n \in 1..Len(entries) : statThrows(links, entries[n]) THEN <<>>
             ELSE analyzeSubdirsPostOrder(fs, dirPath, subdirs, depth, links)
                  \o <<[path |-> dirPath, dir |-> id]>>

analyzeSubdirsPostOrder(fs, dirPath, subdirs, depth, links) ==
    IF subdirs = <<>> THEN <<>>
    ELSE LET entry == Head(subdirs)
         IN  analyzeDirectoriesPostOrder(fs, Child(dirPath, entry.name), entry.to, depth - 1,
                                         linksTo(links, entry))
             \o analyzeSubdirsPostOrder(fs, dirPath, Tail(subdirs), depth, links)

\* DeepDiveAnalyzer.analyzeDirectoriesRecursive: the directories analyzed,
\* in order, each with the directory the path leads to.  The subdirectories
\* are collected first; a throw of stat there leaves the method through the
\* catch with nothing analyzed.
RECURSIVE analyzeDirectoriesRecursive(_, _, _, _, _)
RECURSIVE analyzeSubdirs(_, _, _, _, _)
analyzeDirectoriesRecursive(fs, dirPath, id, depth, links) ==
    IF depth <= 0 THEN <<>>
    ELSE LET entries == SelectSeq(fs[id], LAMBDA entry : ~startsWithDot(entry.name))
             subdirs == SelectSeq(entries, LAMBDA entry : entry.isDir)
         IN  IF \E n \in 1..Len(entries) : statThrows(links, entries[n]) THEN <<>>
             ELSE <<[path |-> dirPath, dir |-> id]>>
                  \o analyzeSubdirs(fs, dirPath, subdirs, depth, links)

analyzeSubdirs(fs, dirPath, subdirs, depth, links) ==
    IF subdirs = <<>> THEN <<>>
    ELSE LET entry == Head(subdirs)
         IN  analyzeDirectoriesRecursive(fs, Child(dirPath, entry.name), entry.to, depth - 1,
                                         linksTo(links, entry))
             \o analyzeSubdirs(fs, dirPath, Tail(subdirs), depth, links)

\* stat(join(dirPath, name)) for a name that need not be listed: "none"
\* when it throws (no such entry, or too many links on the way)
statOf(fs, id, name, links) ==
    LET found == SelectSeq(fs[id], LAMBDA entry : entry.name = name)
    IN  IF found = <<>> \/ statThrows(links, found[1]) THEN "none"
        ELSE IF found[1].isDir THEN "dir" ELSE "file"

\* DeepDiveAnalyzer.analyzeModules: the manifests analyzed, in order; a
\* throw of stat is caught inside the loop, which goes on with the next name
RECURSIVE analyzeModulesFrom(_, _, _, _)
analyzeModulesFrom(fs, dirPath, id, i) ==
    IF i > Len(moduleFiles) THEN <<>>
    ELSE LET moduleFile == moduleFiles[i]
             modulePath == Child(dirPath, moduleFile)
         IN  (IF statOf(fs, id, moduleFile, 0) = "file"
              THEN <<[path |-> modulePath, dir |-> id]>> ELSE <<>>)
             \o analyzeModulesFrom(fs, dirPath, id, i + 1)

\* a faulty analyzeModules that also looks for manifests in the
\* subdirectories
RECURSIVE analyzeModulesDeep(_, _, _)
RECURSIVE analyzeModulesBelow(_, _, _)
analyzeModulesDeep(fs, dirPath, id) ==
    analyzeModulesFrom(fs, dirPath, id, 1)
    \o analyzeModulesBelow(fs, dirPath, SelectSeq(fs[id], LAMBDA entry : entry.isDir /\ ~entry.isLink))

analyzeModulesBelow(fs, dirPath, subdirs) ==
    IF subdirs = <<>> THEN <<>>
    ELSE analyzeModulesDeep(fs, Child(dirPath, Head(subdirs).name), Head(subdirs).to)
         \o analyzeModulesBelow(fs, dirPath, Tail(subdirs))

analyzeModules(fs, dirPath, id) == analyzeModulesFrom(fs, dirPath, id, 1)

Github == <<".", "github">>

\* getFilesRecursively of bin/run-agent.js: the exclusion list is looked at
\* for directories only, with the full path
RECURSIVE getFilesRecursively(_, _, _, _, _, _)
RECURSIVE getFilesLoop(_, _, _, _, _, _)
getFilesRecursively(fs, dir, id, ignoreDirs, links, userRepoPath) ==
    getFilesLoop(fs, dir, fs[id], ignoreDirs, links, userRepoPath)

getFilesLoop(fs, dir, entries, ignoreDirs, links, userRepoPath) ==
    IF entries = <<>> THEN <<>>
    ELSE LET entry == Head(entries)
             fullPath == Child(dir, entry.name)
             relativePath == replaceFirst(fullPath, userRepoPath \o <<"/">>)
             rest == getFilesLoop(fs, dir, Tail(entries), ignoreDirs, links, userRepoPath)
         IN  IF startsWithDot(entry.name) /\ entry.name # Github THEN rest
             ELSE IF statThrows(links, entry) THEN <<>>
             ELSE IF entry.isDir
                  THEN (IF ~\E ignore \in ignoreDirs : includes(fullPath, ignore)
                        THEN getFilesRecursively(fs, fullPath, entry.to, ignoreDirs,
                                                 linksTo(links, entry), userRepoPath)
                        ELSE <<>>) \o rest
             ELSE <<relativePath>> \o rest

\* getFilesRecursively of bin/coaching.js, the same text as in run-agent.js
getFilesRecursivelyCoaching(fs, dir, id, ignoreDirs, links, userRepoPath) ==
    getFilesRecursively(fs, dir, id, ignoreDirs, links, userRepoPath)

\* GitHubIntegration.getFilesRecursively (src/agent-state.js): the
\* exclusion list is looked at for every entry, with the relative path,
\* before stat
RECURSIVE getFilesRecursivelyIntegration(_, _, _, _, _, _)
RECURSIVE getFilesLoopIntegration(_, _, _, _, _, _)
getFilesRecursivelyIntegration(fs, dir, id, ignoreDirs, links, thisRepoPath) ==
    getFilesLoopIntegration(fs, dir, fs[id], ignoreDirs, links, thisRepoPath)

getFilesLoopIntegration(fs, dir, entries, ignoreDirs, links, thisRepoPath) ==
    IF entries = <<>> THEN <<>>
    ELSE LET entry == Head(entries)
             fullPath == Child(dir, entry.name)
             relativePath == replaceFirst(fullPath, thisRepoPath \o <<"/">>)
             rest == getFilesLoopIntegration(fs, dir, Tail(entries), ignoreDirs, links,
                                             thisRepoPath)
         IN  IF startsWithDot(entry.name) /\ entry.name # Github THEN rest
             ELSE IF \E ignore \in ignoreDirs : includes(relativePath, ignore) THEN rest
             ELSE IF statThrows(links, entry) THEN <<>>
             ELSE IF entry.isDir
                  THEN getFilesRecursivelyIntegration(fs, fullPath, entry.to, ignoreDirs,
                                                      linksTo(links, entry), thisRepoPath)
                       \o rest
             ELSE <<relativePath>> \o rest

\* the exclusion lists of the three call sites
ignoreDirsRunAgent ==
    {<<".", "git">>, <<"node_modules">>, <<".", "consciousness-lab">>, <<"dist">>, <<"build">>}
ignoreDirsCoaching ==
    {<<".", "git">>, <<"node_modules">>, <<".", "agent-states">>, <<"dist">>, <<"build">>,
     <<"target">>, <<"bin">>, <<"obj">>, <<"__pycache__">>, <<"venv">>, <<".", "venv">>}
ignoreDirsIntegration == ignoreDirsCoaching

\* the entries a drawn file system is made of: the root directory holds
\* some of RootPool, its subdirectory lib some of LibPool, in any order
RootPool ==
    {File(Name("a", "js")), File(Name("build", "js")), Dir(<<"lib">>, "lib"),
     Dir(<<"node_modules">>, "modules"), File(Name("package", "json")),
     File(Name("setup", "py"))}
LibPool ==
    {File(Name("b", "js")), File(Name("c", "js")), File(<<".", "env">>), Link(<<"up">>, "root"),
     File(Name("package", "json"))}

\* the sequences of at most n different elements of S
Arrangements(S, n) ==
    {list \in SeqsUpTo(S, n) : \A i, j \in 1..Len(list) : list[i] = list[j] => i = j}

WalkDepths == {1, 3}

\* the tree {a/b.txt, a/c/d.txt}, walked from a with maxDepth 2 and the
\* extension list ['.txt']
ExampleWalk ==
    [fs |-> [root |-> <<File(Name("b", "txt")), Dir(<<"c">>, "lib")>>,
             lib |-> <<File(Name("d", "txt"))>>,
             modules |-> <<>>],
     maxDepth |-> 2, root |-> <<"a">>, fileExtensions |-> {"txt"}]

WalkInputs(n) ==
    {[fs |-> [root |-> r, lib |-> l, modules |-> <<File(Name("d", "js"))>>], maxDepth |-> d,
      root |-> repoPath, fileExtensions |-> fileExtensions] :
        r \in Arrangements(RootPool, n), l \in Arrangements(LibPool, n), d \in WalkDepths}
    \cup {ExampleWalk}

NoWalk == [walk |-> "none", v |-> <<>>]

InitWalk ==
    /\ InitMain /\ travIdle /\ coachIdle /\ freshIdle /\ jsonIdle /\ keyIdle /\ storeIdle
    /\ tIn \in WalkInputs(MaxEntries)
    /\ tOut = NoWalk

ApplyAnalyzeFiles ==
    /\ tOut.walk = "none"
    /\ tOut' = [walk |-> "analyzeFilesRecursive",
                v |-> analyzeFilesRecursive(tIn.fs, tIn.root, "root", tIn.fileExtensions,
                                            tIn.maxDepth, 0)]
    /\ UNCHANGED <<tIn, mainVars, freshVars, jsonVars, keyVars, storeVars, travVars, coachVars>>

ApplyAnalyzeDirectories ==
    /\ tOut.walk = "none"
    /\ tOut' = [walk |-> "analyzeDirectoriesRecursive",
                v |-> analyzeDirectoriesRecursive(tIn.fs, tIn.root, "root", tIn.maxDepth, 0)]
    /\ UNCHANGED <<tIn, mainVars, freshVars, jsonVars, keyVars, storeVars, travVars, coachVars>>

ApplyAnalyzeModules ==
    /\ tOut.walk = "none"
    /\ tOut' = [walk |-> "analyzeModules", v |-> analyzeModules(tIn.fs, tIn.root, "root")]
    /\ UNCHANGED <<tIn, mainVars, freshVars, jsonVars, keyVars, storeVars, travVars, coachVars>>

ApplyGetFilesRunAgent ==
    /\ tOut.walk = "none"
    /\ tOut' = [walk |-> "run-agent",
                v |-> getFilesRecursively(tIn.fs, tIn.root, "root", ignoreDirsRunAgent, 0,
                                          tIn.root)]
    /\ UNCHANGED <<tIn, mainVars, freshVars, jsonVars, keyVars, storeVars, travVars, coachVars>>

ApplyGetFilesCoaching ==
    /\ tOut.walk = "none"
    /\ tOut' = [walk |-> "coaching",
                v |-> getFilesRecursivelyCoaching(tIn.fs, tIn.root, "root",
                                                  ignoreDirsCoaching, 0, tIn.root)]
    /\ UNCHANGED <<tIn, mainVars, freshVars, jsonVars, keyVars, storeVars, travVars, coachVars>>

ApplyGetFilesIntegration ==
    /\ tOut.walk = "none"
    /\ tOut' = [walk |-> "agent-state",
                v |-> getFilesRecursivelyIntegration(tIn.fs, tIn.root, "root",
                                                     ignoreDirsIntegration, 0, tIn.root)]
    /\ UNCHANGED <<tIn, mainVars, freshVars, jsonVars, keyVars, storeVars, travVars, coachVars>>

NextWalk ==
    \/ ApplyAnalyzeFiles
    \/ ApplyAnalyzeDirectories
    \/ ApplyAnalyzeModules
    \/ ApplyGetFilesRunAgent
    \/ ApplyGetFilesCoaching
    \/ ApplyGetFilesIntegration

SpecWalk == InitWalk /\ [][NextWalk]_vars

(***************************************************************************)
(* analyzeFilesRecursive and analyzeDirectoriesRecursive taken call by     *)
(* call over a drawn directory graph.  The graph may hold cycles: a        *)
(* symbolic link to an ancestor, and a directory entry that leads to an    *)
(* ancestor without being a link (a bind mount).  vStack holds one frame   *)
(* for each call that has not returned: the directory, the entries still   *)
(* to be looked at, the call's maxDepth and the links on the way.          *)
(***************************************************************************)
TraversalRootPool == {File(Name("a", "js")), Dir(<<"lib">>, "lib"), Link(<<"loop">>, "root")}
TraversalLibPool ==
    {File(Name("b", "js")), File(<<".", "env">>), Link(<<"up">>, "root"), Dir(<<"mnt">>, "root")}

TraversalDepths == {0, 2, 4}

TraversalInputs(n) ==
    {[walk |-> w, fs |-> [root |-> r, lib |-> l], maxDepth |-> d, root |-> repoPath,
      fileExtensions |-> fileExtensions] :
        w \in {"files", "directories"}, r \in Arrangements(TraversalRootPool, n),
        l \in Arrangements(TraversalLibPool, n), d \in TraversalDepths}

NoTraversal == [state |-> "idle", v |-> <<>>]
NoCall == [frames |-> <<>>, items |-> <<>>]

InitTraversal ==
    /\ InitMain /\ freshIdle /\ jsonIdle /\ keyIdle /\ storeIdle /\ walkIdle /\ coachIdle
    /\ vIn \in TraversalInputs(MaxEntries)
    /\ vStack = <<>>
    /\ vOut = NoTraversal

\* what a call of the walk does before its loop: analyzeFilesRecursive
\* returns at once when maxDepth <= 0 and else lists the directory;
\* analyzeDirectoriesRecursive returns at once when maxDepth <= 0, leaves
\* through its catch when a stat of the listing throws, and else analyzes
\* the directory and goes on with its subdirectories
enterDirectory(walk, fs, dirPath, id, depth, links) ==
    IF depth <= 0 THEN NoCall
    ELSE IF walk = "files"
         THEN [frames |-> <<[path |-> dirPath, id |-> id, entries |-> fs[id], depth |-> depth,
                             links |-> links]>>,
               items |-> <<>>]
    ELSE LET entries == SelectSeq(fs[id], LAMBDA entry : ~startsWithDot(entry.name))
             subdirs == SelectSeq(entries, LAMBDA entry : entry.isDir)
         IN  IF \E n \in 1..Len(entries) : statThrows(links, entries[n]) THEN NoCall
             ELSE [frames |-> <<[path |-> dirPath, id |-> id, entries |-> subdirs,
                                 depth |-> depth, links |-> links]>>,
                   items |-> <<[path |-> dirPath, dir |-> id]>>]

\* a faulty recursive call that passes maxDepth on unchanged
recursiveCallSameDepth(walk, fs, frame, entry) ==
    enterDirectory(walk, fs, Child(frame.path, entry.name), entry.to, frame.depth,
                   linksTo(frame.links, entry))

\* this.analyzeFilesRecursive(fullPath, fileExtensions, maxDepth - 1, ...)
\* and this.analyzeDirectoriesRecursive(subdir, maxDepth - 1, ...)
recursiveCall(walk, fs, frame, entry) ==
    enterDirectory(walk, fs, Child(frame.path, entry.name), entry.to, frame.depth - 1,
                   linksTo(frame.links, entry))

Walking == vOut.state = "walking" /\ vStack # <<>>
TopFrame == vStack[Len(vStack)]
Callers == SubSeq(vStack, 1, Len(vStack) - 1)
\* the top frame with its first entry done
Advanced == [TopFrame EXCEPT !.entries = Tail(TopFrame.entries)]
StateAfter(frames) == IF frames = <<>> THEN "done" ELSE "walking"

\* deepDiveAnalysis calls the walk on the repository
StartTraversal ==
    /\ vOut.state = "idle"
    /\ \E call \in {enterDirectory(vIn.walk, vIn.fs, vIn.root, "root", vIn.maxDepth, 0)} :
          /\ vStack' = call.frames
          /\ vOut' = [state |-> StateAfter(call.frames), v |-> call.items]
    /\ UNCHANGED <<vIn, mainVars, freshVars, jsonVars, keyVars, storeVars, walkVars, coachVars>>

\* if (entry.startsWith('.')) continue
TraverseSkipDot ==
    /\ Walking /\ vIn.walk = "files" /\ TopFrame.entries # <<>>
    /\ startsWithDot(Head(TopFrame.entries).name)
    /\ vStack' = Append(Callers, Advanced)
    /\ UNCHANGED <<vIn, vOut, mainVars, freshVars, jsonVars, keyVars, storeVars, walkVars, coachVars>>

\* stat throws: the catch of the call ends its loop and the call returns
TraverseStatThrows ==
    /\ Walking /\ vIn.walk = "files" /\ TopFrame.entries # <<>>
    /\ ~startsWithDot(Head(TopFrame.entries).name)
    /\ statThrows(TopFrame.links, Head(TopFrame.entries))
    /\ vStack' = Callers
    /\ vOut' = [vOut EXCEPT !.state = StateAfter(Callers)]
    /\ UNCHANGED <<vIn, mainVars, freshVars, jsonVars, keyVars, storeVars, walkVars, coachVars>>

\* stats.isFile(): a WorkItem when the extension is listed
TraverseFile ==
    /\ Walking /\ vIn.walk = "files" /\ TopFrame.entries # <<>>
    /\ \E entry \in {Head(TopFrame.entries)} :
          /\ ~startsWithDot(entry.name) /\ ~statThrows(TopFrame.links, entry) /\ ~entry.isDir
          /\ vOut' = [vOut EXCEPT !.v =
                         IF Ext(entry.name) \in {<<e>> : e \in vIn.fileExtensions}
                         THEN Append(@, [path |-> Child(TopFrame.path, entry.name),
                                         dir |-> TopFrame.id])
                         ELSE @]
    /\ vStack' = Append(Callers, Advanced)
    /\ UNCHANGED <<vIn, mainVars, freshVars, jsonVars, keyVars, storeVars, walkVars, coachVars>>

\* stats.isDirectory(), and the next of subdirs: the recursive call
TraverseEnter ==
    /\ Walking /\ TopFrame.entries # <<>>
    /\ \E entry \in {Head(TopFrame.entries)} :
          /\ ~startsWithDot(entry.name) /\ ~statThrows(TopFrame.links, entry) /\ entry.isDir
          /\ \E call \in {recursiveCall(vIn.walk, vIn.fs, TopFrame, entry)} :
                /\ vStack' = Append(Callers, Advanced) \o call.frames
                /\ vOut' = [vOut EXCEPT !.v = @ \o call.items]
    /\ UNCHANGED <<vIn, mainVars, freshVars, jsonVars, keyVars, storeVars, walkVars, coachVars>>

\* the loop of the call is over: return results
TraverseReturn ==
    /\ Walking /\ TopFrame.entries = <<>>
    /\ vStack' = Callers
    /\ vOut' = [vOut EXCEPT !.state = StateAfter(Callers)]
    /\ UNCHANGED <<vIn, mainVars, freshVars, jsonVars, keyVars, storeVars, walkVars, coachVars>>

NextTraversal ==
    \/ StartTraversal
    \/ TraverseSkipDot
    \/ TraverseStatThrows
    \/ TraverseFile
    \/ TraverseEnter
    \/ TraverseReturn

\* the walk is one chain of awaited calls: a step that can be taken is taken
SpecTraversal == InitTraversal /\ [][NextTraversal]_vars /\ WF_vars(NextTraversal)

(***************************************************************************)
(* CoachingSystem.runCoachingSession: analyzeImprovements, then            *)
(* facilitateAgentDiscussion agent by agent, then generateCoachingReport.  *)
(* The character file holds the four agents.  The texts of the prompts,    *)
(* and with them repoContext and agentInsights, do not reach the state.    *)
(***************************************************************************)
coachingAgents == <<"architect", "educator", "visionary", "philosopher">>

ImprovementsA == Obj(<<Member(<<"improvements">>, Arr(<<Str(<<"a">>)>>))>>)
NoImprovements == Obj(<<Member(<<"improvements">>, Arr(<<>>))>>)
CoachingTexts == {Noisy(ImprovementsA), Noisy(NoImprovements), GoodText, ProseText}
CoachingResponses == {CallFailed} \cup {Responded(t) : t \in CoachingTexts}
CoachingResult == [response \in CoachingResponses |-> callWithJSON(response)]

\* response.improvements || []
improvementsOf(value) ==
    LET found == IF value.t = "obj"
                 THEN SelectSeq(value.v, LAMBDA member : member.k = <<"improvements">>)
                 ELSE <<>>
    IN  IF found = <<>> THEN <<>> ELSE found[1].v.v

\* analyzeImprovements: the catch block returns []
analyzeImprovements(response) ==
    IF CoachingResult[response].ok THEN improvementsOf(CoachingResult[response].v) ELSE <<>>

DiscussionUnavailable ==
    Obj(<<Member(<<"perspective">>, Str(<<"Discussion unavailable">>)),
          Member(<<"top_priorities">>, Arr(<<>>)),
          Member(<<"additional_insights">>, Arr(<<>>)),
          Member(<<"risks">>, Arr(<<>>)),
          Member(<<"recommendations">>, Arr(<<>>))>>)

\* one turn of the loop of facilitateAgentDiscussion.  The catch block
\* begins with console.warn(`... ${agent.name}:`, ...): no agent is declared
\* in the method or the module, so evaluating the message throws a
\* ReferenceError out of the catch block before the placeholder is assigned
discussAgent(id, response) ==
    IF CoachingResult[response].ok
    THEN [threw |-> FALSE, error |-> "none",
          v |-> [character |-> id, discussion |-> CoachingResult[response].v]]
    ELSE [threw |-> TRUE, error |-> "agent is not defined", v |-> Null]

ReportFailed ==
    Obj(<<Member(<<"executive_summary">>, Str(<<"Coaching report generation failed">>))>>)

\* generateCoachingReport: the catch block returns the placeholder report
generateCoachingReport(response) ==
    IF CoachingResult[response].ok THEN CoachingResult[response].v ELSE ReportFailed

NoSession ==
    [step |-> "idle", improvements |-> <<>>, next |-> 1, discussions |-> <<>>,
     failed |-> {}, report |-> Null, error |-> "none"]

InitCoaching ==
    /\ InitMain /\ freshIdle /\ jsonIdle /\ keyIdle /\ storeIdle /\ walkIdle /\ travIdle
    /\ cSess = NoSession

\* step 1; with no improvement the session returns null
CoachAnalyzeImprovements(response) ==
    /\ cSess.step = "idle"
    /\ \E improvements \in {analyzeImprovements(response)} :
          cSess' = [cSess EXCEPT !.improvements = improvements,
                                 !.step = IF Len(improvements) = 0 THEN "returned null"
                                          ELSE "discussion"]
    /\ UNCHANGED <<mainVars, freshVars, jsonVars, keyVars, storeVars, walkVars, travVars>>

\* step 2, the turn of the next agent; a throw leaves
\* facilitateAgentDiscussion and runCoachingSession, which catch nothing
CoachDiscuss(response) ==
    /\ cSess.step = "discussion" /\ cSess.next <= Len(coachingAgents)
    /\ \E id \in {coachingAgents[cSess.next]} :
       \E turn \in {discussAgent(id, response)} :
          cSess' = IF turn.threw
                   THEN [cSess EXCEPT !.step = "threw", !.error = turn.error,
                                      !.failed = @ \cup {id}]
                   ELSE [cSess EXCEPT !.next = @ + 1,
                                      !.discussions = Append(@, turn.v),
                                      !.failed = IF CoachingResult[response].ok THEN @
                                                 ELSE @ \cup {id}]
    /\ UNCHANGED <<mainVars, freshVars, jsonVars, keyVars, storeVars, walkVars, travVars>>

\* step 3 and the return of the session
CoachReport(response) ==
    /\ cSess.step = "discussion" /\ cSess.next > Len(coachingAgents)
    /\ cSess' = [cSess EXCEPT !.report = generateCoachingReport(response), !.step = "returned"]
    /\ UNCHANGED <<mainVars, freshVars, jsonVars, keyVars, storeVars, walkVars, travVars>>

NextCoaching ==
    \/ \E response \in CoachingResponses : CoachAnalyzeImprovements(response)
    \/ \E response \in CoachingResponses : CoachDiscuss(response)
    \/ \E response \in CoachingResponses : CoachReport(response)

SpecCoaching == InitCoaching /\ [][NextCoaching]_vars

(***************************************************************************)
(* Properties                                                              *)
(***************************************************************************)
\* the list of results of the run for a level
ResultsAt(level) ==
    CASE level = "file" -> results.files
      [] level = "directory" -> results.directories
      [] level = "module" -> results.modules

Paths(items) == [i \in 1..Len(items) |-> items[i].path]

\* the WorkItems of a run: the files with a listed extension, the
\* directories and the manifests that the walk of repoPath reaches within
\* depth levels, in the order of the walk
RECURSIVE WorkFiles(_, _, _)
WorkFiles(dirPath, entries, depth) ==
    IF depth <= 0 \/ entries = <<>> THEN <<>>
    ELSE LET entry == Head(entries)
             fullPath == Child(dirPath, entry)
             rest == WorkFiles(dirPath, Tail(entries), depth)
         IN  IF entry[1] = "." THEN rest
             ELSE IF statKind(fullPath) = "dir"
                  THEN WorkFiles(fullPath, readdir(fullPath), depth - 1) \o rest
             ELSE IF Ext(entry) \in {<<e>> : e \in fileExtensions}
                  THEN <<fullPath>> \o rest
             ELSE rest

RECURSIVE WorkDirs(_, _)
RECURSIVE WorkSubdirs(_, _)
WorkDirs(dirPath, depth) ==
    IF depth <= 0 THEN <<>>
    ELSE <<dirPath>> \o WorkSubdirs(SubdirsOf(dirPath, readdir(dirPath)), depth - 1)
WorkSubdirs(dirs, depth) ==
    IF dirs = <<>> THEN <<>>
    ELSE WorkDirs(Head(dirs), depth) \o WorkSubdirs(Tail(dirs), depth)

RECURSIVE WorkModulesFrom(_)
WorkModulesFrom(i) ==
    IF i > Len(moduleFiles) THEN <<>>
    ELSE (IF statKind(Child(repoPath, moduleFiles[i])) = "file"
          THEN <<Child(repoPath, moduleFiles[i])>> ELSE <<>>)
         \o WorkModulesFrom(i + 1)

WorkModules == WorkModulesFrom(1)

AllWorkItemsHaveOneResult ==
    /\ Paths(results.files) = WorkFiles(repoPath, readdir(repoPath), maxDepth)
    /\ Paths(results.directories) = WorkDirs(repoPath, maxDepth)
    /\ Paths(results.modules) = WorkModules

\* C1: a per-item step (analyzeFile, analyzeDirectory, analyzeModule) that
\* finds a fresh note for (path, level) makes no service call and leaves
\* the store as it was: it is a cache hit
C1_FreshNoteNoCallNoWrite ==
    (last.n > 0 /\ last.fresh) =>
        /\ last.outcome = "CACHE_HIT"
        /\ last.called = 0
        /\ ~last.wrote

C1_Witness ==
    /\ last.n > 0 /\ last.fresh /\ last.outcome = "CACHE_HIT"
    /\ last.level = "directory" /\ calls = 0 /\ Len(results.files) > 0

\* C2 (refuted by the code): the value a cache-hit step returns is the value
\* the cache-miss step of the same (path, level) returned
C2_HitReturnsWhatMissReturned ==
    (last.outcome = "CACHE_HIT" /\ <<last.path, last.level>> \in DOMAIN returned) =>
        last.ret = returned[<<last.path, last.level>>]

\* C3: isNoteRecent is true exactly when now - timestamp < maxAge; with the
\* default maxAge an age of 24h - 1ms is recent, 24h and 24h + 1ms are not
C3_RecentIffYounger ==
    fOut.done =>
        /\ fOut.recent <=> (fIn.now - fIn.timestamp < fIn.maxAge)
        /\ (fIn.maxAge = DefaultMaxAge /\ fIn.now - fIn.timestamp = DefaultMaxAge - 1)
              => fOut.recent
        /\ (fIn.maxAge = DefaultMaxAge /\ fIn.now - fIn.timestamp = DefaultMaxAge)
              => ~fOut.recent
        /\ (fIn.maxAge = DefaultMaxAge /\ fIn.now - fIn.timestamp = DefaultMaxAge + 1)
              => ~fOut.recent

C3_Witness ==
    /\ fOut.done /\ ~fOut.recent
    /\ fIn.maxAge = DefaultMaxAge /\ fIn.now - fIn.timestamp = DefaultMaxAge

\* C4 (refuted by the code): a step whose service call failed writes nothing
\* to the store
C4_CallFailNotWritten ==
    last.outcome = "CALL_FAIL" => ~last.wrote

\* C5: a step whose response held no extractable JSON, and whose write did
\* not fail, does not throw, returns the fallback analysis, has it stored as
\* the note of (path, level), and a step for the same (path, level) at any
\* time within the staleness window is a cache hit without a service call
C5_ExtractionErrorPersisted ==
    (last.outcome = "PARSE_FAIL" /\ ~last.ioFail) =>
        /\ ~last.threw
        /\ last.ret = FailedAnalysis(last.path)
        /\ loadNote(notes, last.path, last.level) # Null
        /\ loadNote(notes, last.path, last.level).content = FailedAnalysis(last.path)
        /\ \A response \in Responses, diskOk \in BOOLEAN, age \in {0, DefaultMaxAge - 1} :
              \E again \in {analyzeItem(notes,
                                loadNote(notes, last.path, last.level).timestamp + age,
                                last.path, last.level, response, diskOk)} :
                  again.outcome = "CACHE_HIT" /\ again.called = 0 /\ again.store = notes

C5_Witness ==
    /\ last.outcome = "PARSE_FAIL" /\ ~last.ioFail /\ last.level = "file"
    /\ loadNote(notes, last.path, "file") # Null
    /\ loadNote(notes, last.path, "file").content = FailedAnalysis(last.path)

\* C6: whichever service calls fail, a run in which no write fails completes
\* with exactly one result per WorkItem, in walk order; the result of a step
\* is appended to the results of its level, it is the placeholder when the
\* service call failed and the parsed analysis when the response parsed
C6_OneResultPerWorkItem ==
    /\ (phase = "done" /\ ~ioErr /\ ~run.readErr) => (AllWorkItemsHaveOneResult /\ summary # Null)
    /\ (last.n > 0 /\ ~last.threw /\ last.outcome # "READ_FAIL") =>
          /\ ResultsAt(last.level) # <<>>
          /\ ResultsAt(last.level)[Len(ResultsAt(last.level))] = Item(last.path, last.ret)
    /\ (last.outcome = "CALL_FAIL" /\ ~last.threw) => last.ret = FailedAnalysis(last.path)
    /\ (last.outcome = "PARSE_OK" /\ ~last.threw) => last.ret = AnalysisA

\* five WorkItems, the service failed for the last one, four parsed analyses
C6_Witness ==
    /\ phase = "done" /\ ~ioErr /\ calls = 6
    /\ Len(results.files) + Len(results.directories) + Len(results.modules) = 5
    /\ last.outcome = "CALL_FAIL"
    /\ results.modules[1].analysis = FailedAnalysis(results.modules[1].path)
    /\ \A i \in 1..2 : results.files[i].analysis = AnalysisA
                       /\ results.directories[i].analysis = AnalysisA

\* C7 (refuted by the code): a run in which a write failed still completes
\* with one result per WorkItem
C7_WriteFailureKeepsAllResults ==
    (phase = "done" /\ ioErr /\ ~run.readErr) => AllWorkItemsHaveOneResult

RECURSIVE StringsOf(_)
StringsOf(x) ==
    CASE x.t = "num" -> {}
      [] x.t = "str" -> {x.v}
      [] x.t = "arr" -> UNION {StringsOf(x.v[n]) : n \in 1..Len(x.v)}
      [] x.t = "obj" -> UNION {{x.v[n].k} \cup StringsOf(x.v[n].v) : n \in 1..Len(x.v)}

HasBracket(s) == \E n \in 1..Len(s) : s[n] \in Openers \cup Closers

CountOf(text, a, b, ch) == Cardinality({k \in a..b : text[k] = ch})

NoOpener(text) == \A k \in 1..Len(text) : text[k] \notin Openers

FirstOpener(text) == CHOOSE a \in 1..Len(text) : text[a] \in Openers /\ \A k \in 1..(a - 1) : text[k] \notin Openers

\* the positions after the first opener where both depth counts are zero
ZeroPositions(text) ==
    {n \in (FirstOpener(text) + 1)..Len(text) :
        /\ CountOf(text, FirstOpener(text), n, "{") = CountOf(text, FirstOpener(text), n, "}")
        /\ CountOf(text, FirstOpener(text), n, "[") = CountOf(text, FirstOpener(text), n, "]")}

NeverZero(text) == ~NoOpener(text) /\ ZeroPositions(text) = {}

\* the candidate: from the first opener to the first zero position
Candidate(text) ==
    SubSeq(text, FirstOpener(text),
           CHOOSE n \in ZeroPositions(text) : \A m \in ZeroPositions(text) : n <= m)

Unparseable(text) ==
    ~NoOpener(text) /\ ZeroPositions(text) # {} /\ ~JSONParse(Candidate(text)).ok

\* C9: callWithJSON throws, and returns no value, when the text has no
\* opening brace or bracket, when the depth counts never return to zero
\* after the first opener, and when the candidate is not parseable JSON
C9_ExtractionErrors ==
    jOut.r # NotRun =>
        /\ NoOpener(jIn.text) => (~jOut.r.ok /\ jOut.r.err = "No valid JSON found in response")
        /\ NeverZero(jIn.text) => ~jOut.r.ok
        /\ Unparseable(jIn.text) => (~jOut.r.ok /\ jOut.r.err = "Failed to parse JSON response")

\* a parseable payload whose string holds an opener: the counts never
\* return to zero
C9_Witness ==
    /\ jOut.r # NotRun /\ ~jOut.r.ok
    /\ jIn.rt /\ jIn.v = Arr(<<Str(<<"{">>)>>)
    /\ NeverZero(jIn.text)

\* C10 (refuted by the code): no path other than "" and "." has the note
\* path of "." at the same level
C10_RootKeyReserved ==
    (kOut.done /\ kIn.path \notin {<<>>, <<".">>}) =>
        kOut.notePath # getNotePath(<<".">>, kIn.level)

\* C15 (refuted by the code): a run with maxDepth = 0 in which no read or
\* write failed yields exactly one directory WorkItem, the root
C15_DepthZeroRootOnly ==
    (phase = "done" /\ maxDepth = 0 /\ ~ioErr /\ ~run.readErr) =>
        Paths(results.directories) = <<repoPath>>

\* C19: no summary call is made before the walks of files, directories and
\* manifests are over; a run makes at most one; a run that made it is over
\* and has a summary: the parsed one, or the placeholder when the call or
\* the parse failed, and the run did not throw
C19_SummaryLastOnceNoThrow ==
    /\ run.summaryCalls <= 1
    /\ phase \in {"idle", "files", "directories", "modules", "summary"} =>
          (run.summaryCalls = 0 /\ summary = Null)
    /\ run.summaryCalls = 1 =>
          /\ phase = "done"
          /\ stack = <<>> /\ modIdx > Len(moduleFiles)
          /\ summary = (IF run.summaryFailed THEN SummaryPlaceholder ELSE AnalysisA)
    /\ phase = "done" => run.summaryCalls = 1

C19_Witness ==
    /\ phase = "done" /\ run.summaryCalls = 1 /\ run.summaryFailed
    /\ summary = SummaryPlaceholder
    /\ Len(results.files) = 2 /\ Len(results.directories) = 2 /\ Len(results.modules) = 1

\* C20: the exit code is 1 only when the setup failed, before any WorkItem
\* was touched; a run that started has not exited while it walks, and ends
\* with exit code 0 whatever reads, service calls and parses failed in it
C20_ExitCodes ==
    /\ run.exit = 1 => (phase = "failed" /\ last = NoStep /\ calls = 0 /\ run.summaryCalls = 0)
    /\ phase = "failed" => run.exit = 1
    /\ phase \in {"files", "directories", "modules", "summary"} => run.exit = -1
    /\ phase = "done" => run.exit = 0

\* a run in which a read failed, the last service call failed and the
\* summary call failed: exit code 0, fewer results than WorkItems
C20_Witness ==
    /\ phase = "done" /\ run.exit = 0 /\ maxDepth = 2
    /\ run.readErr /\ run.summaryFailed /\ last.outcome = "CALL_FAIL"
    /\ Len(results.files) < 2

\* what the note files hold for (path, level): the record, or Null when
\* there is no file or the file is malformed
Stored(path, level) ==
    LET notePath == getNotePath(path, level)
    IN  IF notePath \in DOMAIN disk /\ disk[notePath] # Malformed THEN disk[notePath] ELSE Null

\* C11: after saveNote calls only, loadNote(p, l) returns the record whose
\* content is that of the most recent saveNote(p, l), whatever was saved
\* for other paths and levels in between.
C11_LatestSaveOfSlotIsLoaded ==
    (op.kind = "load" /\ op.readOk /\ hist.onlySaves /\ <<op.path, op.level>> \in DOMAIN hist.saved)
        => /\ op.v # Null
           /\ op.v.content = hist.saved[<<op.path, op.level>>]

\* C12: loadNote never throws; it returns null when there is no note file,
\* null when the file is malformed or cannot be read, and the stored record
\* otherwise.
C12_LoadNoteNeverThrows ==
    op.kind = "load"
        => /\ ~op.threw
           /\ op.v = (IF op.readOk THEN Stored(op.path, op.level) ELSE Null)

C12_Witness ==
    /\ op.kind = "load"
    /\ getNotePath(op.path, op.level) \in DOMAIN disk
    /\ disk[getNotePath(op.path, op.level)] = Malformed
    /\ op.v = Null

\* C13: clearNotes(p) deletes the note files of p, at every level, and
\* leaves every other note file as it was, those of paths below p included;
\* clearNotes() deletes every note file.
C13_ClearDeletesOneNode ==
    op.kind = "clear"
        => IF op.path = <<>> THEN DOMAIN disk = {}
           ELSE LET node == {getNotePath(op.path, level) : level \in Levels}
                IN  /\ DOMAIN disk = DOMAIN op.before \ node
                    /\ \A k \in DOMAIN disk : disk[k] = op.before[k]

\* the prefixes of path that are at most hops components shorter than it
AncestorsWithin(path, hops) ==
    LET pathParts == SplitPath(path)
    IN  {JoinSlash(SubSeq(pathParts, 1, Len(pathParts) - j)) :
            j \in 1..Min(hops, Len(pathParts) - 1)}

\* C18: the result of loadContextualNotes(path, maxDepth) contains every
\* stored note of the path itself and of each of its ancestor prefixes
\* within maxDepth hops.
C18_ContextHasPathAndAncestors ==
    op.kind = "context"
        => \A q \in {op.path} \cup AncestorsWithin(op.path, op.maxDepth), level \in Levels :
              Stored(q, level) # Null
                  => \E n \in 1..Len(op.v) : op.v[n] = Stored(q, level)

\* the walks that take an exclusion list, with the list of their call site
ExclusionLists ==
    [w \in {"run-agent", "coaching", "agent-state"} |->
        CASE w = "run-agent" -> ignoreDirsRunAgent
          [] w = "coaching" -> ignoreDirsCoaching
          [] w = "agent-state" -> ignoreDirsIntegration]

\* C14: no path returned by a walk that takes an exclusion list contains an
\* exclusion substring, in a directory name or in a file name.
C14_NoExcludedPathReturned ==
    tOut.walk \in DOMAIN ExclusionLists
        => \A n \in 1..Len(tOut.v), ignore \in ExclusionLists[tOut.walk] :
              ~includes(tOut.v[n], ignore)

\* the last component of a path
Basename(path) == SplitPath(path)[Len(SplitPath(path))]

\* C16: in one traversal no directory is analyzed and enumerated twice,
\* symbolic links to an ancestor included: no directory is reached under
\* two paths, and no file is found twice in the listing of one directory.
C16_EachDirectoryOnce ==
    /\ tOut.walk = "analyzeDirectoriesRecursive"
           => \A i, j \in 1..Len(tOut.v) : tOut.v[i].dir = tOut.v[j].dir => i = j
    /\ tOut.walk = "analyzeFilesRecursive"
           => \A i, j \in 1..Len(tOut.v) :
                 (/\ tOut.v[i].dir = tOut.v[j].dir
                  /\ Basename(tOut.v[i].path) = Basename(tOut.v[j].path)) => i = j

\* the lexical order of the entry names of the drawn file systems
NameOrder ==
    <<<<".", "env">>, Name("a", "js"), Name("b", "js"), Name("build", "js"), Name("c", "js"),
      Name("b", "txt"), <<"c">>, Name("d", "js"), Name("d", "txt"), <<"lib">>,
      <<"node_modules">>, Name("package", "json"), Name("setup", "py"), <<"up">>>>

Rank(name) == CHOOSE n \in 1..Len(NameOrder) : NameOrder[n] = name

\* the entries of a listing in lexical order of their names
Lexical(entries) ==
    LET ranks == {Rank(entries[n].name) : n \in 1..Len(entries)}
        SortedFrom[k \in 1..(Len(NameOrder) + 1)] ==
            IF k > Len(NameOrder) THEN <<>>
            ELSE (IF k \in ranks
                  THEN <<CHOOSE e \in {entries[n] : n \in 1..Len(entries)} : Rank(e.name) = k>>
                  ELSE <<>>) \o SortedFrom[k + 1]
    IN  SortedFrom[1]

LexicalFs(fs) == [id \in DOMAIN fs |-> Lexical(fs[id])]

\* C17: the WorkItems of a traversal are those of the traversal that takes
\* the entries of each directory in lexical order, in the same order,
\* whatever order readdir returns the entries in.
C17_LexicalOrder ==
    /\ tOut.walk = "analyzeFilesRecursive"
           => tOut.v = analyzeFilesRecursive(LexicalFs(tIn.fs), tIn.root, "root",
                                             tIn.fileExtensions, tIn.maxDepth, 0)
    /\ tOut.walk = "analyzeDirectoriesRecursive"
           => tOut.v = analyzeDirectoriesRecursive(LexicalFs(tIn.fs), tIn.root, "root",
                                                   tIn.maxDepth, 0)

\* the entries below a directory that loadSubdirectoryNotes does not skip,
\* down to the given number of levels
RECURSIVE DescendantsWithin(_, _)
DescendantsWithin(dirPath, levels) ==
    IF levels <= 0 THEN {}
    ELSE LET children == {Child(dirPath, readdir(dirPath)[n]) :
                             n \in {k \in 1..Len(readdir(dirPath)) : readdir(dirPath)[k][1] # "."}}
         IN  children \cup UNION {DescendantsWithin(c, levels - 1) : c \in children}

\* C25 (refuted by the code): for a directory, the result of
\* loadContextualNotes(path, maxDepth) contains every stored note of every
\* descendant down to maxDepth levels below it (with maxDepth = 1, of its
\* direct children).
C25_ContextHasDescendants ==
    (op.kind = "context" /\ statKind(op.path) = "dir")
        => \A q \in DescendantsWithin(op.path, op.maxDepth), level \in Levels :
              Stored(q, level) # Null
                  => \E n \in 1..Len(op.v) : op.v[n] = Stored(q, level)

\* the directory NotesCache keeps the notes of its agent in
OwnNotesDirectory == PathJoin(<<notesPath>>)

\* C28 (refuted by the code): for every path, the note path lies inside
\* the notes directory of the agent the cache was built for.
C28_NotePathInsideOwnDirectory ==
    kOut.done => IsPrefix(OwnNotesDirectory, kOut.notePath)

\* the scanner callWithJSON is compared with: one depth counter shared by
\* braces and brackets, counted from the first opener; the position where
\* it first returns to zero, or 0 when it never does
RECURSIVE SharedDepthEnd(_, _, _)
SharedDepthEnd(text, n, depth) ==
    IF n > Len(text) THEN 0
    ELSE LET d == depth + (IF text[n] \in Openers THEN 1 ELSE 0)
                        - (IF text[n] \in Closers THEN 1 ELSE 0)
         IN  IF d = 0 THEN n ELSE SharedDepthEnd(text, n + 1, d)

\* what that scanner gives for a text: the parsed candidate, or a failure
ScannerResult(text) ==
    IF NoOpener(text) THEN [ok |-> FALSE, v |-> Null]
    ELSE LET first == FirstOpener(text)
             end == SharedDepthEnd(text, first, 0)
             parsed == JSONParse(SubSeq(text, first, end))
         IN  IF end # 0 /\ parsed.ok THEN [ok |-> TRUE, v |-> parsed.v]
             ELSE [ok |-> FALSE, v |-> Null]

\* C23 (refuted by the code): callWithJSON returns a value exactly for the
\* texts for which the scanner with one shared depth counter does, and
\* then the same value.
C23_SameAsSharedCounterScanner ==
    jOut.r # NotRun =>
        /\ jOut.r.ok = ScannerResult(jIn.text).ok
        /\ jOut.r.ok => jOut.r.v = ScannerResult(jIn.text).v

\* the position of an entry name in a listing
IndexOfName(entries, name) == CHOOSE n \in 1..Len(entries) : entries[n].name = name

\* the enumeration key of a path below the walk root: for each of its
\* components, the position of the component in the listing of its parent
RECURSIVE KeyFrom(_, _, _)
KeyFrom(fs, id, names) ==
    IF names = <<>> THEN <<>>
    ELSE LET n == IndexOfName(fs[id], Head(names))
         IN  <<n>> \o KeyFrom(fs, fs[id][n].to, Tail(names))

EnumerationKey(path) ==
    LET parts == SplitPath(path)
    IN  KeyFrom(tIn.fs, "root", SubSeq(parts, Len(SplitPath(tIn.root)) + 1, Len(parts)))

\* key1 comes before key2: it is a proper prefix of key2, or smaller at
\* the first position where they differ
KeyBefore(key1, key2) ==
    \E i \in 1..Len(key2) :
        /\ \A k \in 1..(i - 1) : k <= Len(key1) /\ key1[k] = key2[k]
        /\ i > Len(key1) \/ key1[i] < key2[i]

WalkPaths == [n \in 1..Len(tOut.v) |-> tOut.v[n].path]

\* C24: analyzeModules gives WorkItems only for the manifests that are
\* files directly in the root directory, one for each of them, in the order
\* of the fixed list of manifest names; never for a manifest in a
\* subdirectory.
C24_ModulesFromRootOnly ==
    tOut.walk = "analyzeModules" =>
        LET rootFiles == {tIn.fs.root[n].name :
                             n \in {k \in 1..Len(tIn.fs.root) : ~tIn.fs.root[k].isDir}}
            listed == {i \in 1..Len(moduleFiles) : moduleFiles[i] \in rootFiles}
        IN  /\ Len(tOut.v) = Cardinality(listed)
            /\ \A n \in 1..Len(tOut.v) :
                  \E i \in listed : /\ tOut.v[n].path = Child(tIn.root, moduleFiles[i])
                                    /\ Cardinality({j \in listed : j < i}) = n - 1

\* a manifest in the root and one in a listed subdirectory: only the one
\* in the root is a WorkItem
C24_Witness ==
    /\ tOut.walk = "analyzeModules"
    /\ tIn.fs.root = <<Dir(<<"lib">>, "lib"), File(Name("package", "json"))>>
    /\ tIn.fs.lib = <<File(Name("package", "json"))>>
    /\ WalkPaths = <<Child(repoPath, Name("package", "json"))>>

\* C26: the file WorkItems come in depth-first order of enumeration, the
\* directory WorkItems in pre-order (a directory before everything below
\* it, subtrees in order of enumeration); for the tree {a/b.txt, a/c/d.txt}
\* and maxDepth 2 the files are a/b.txt, a/c/d.txt and the directories
\* a, a/c.
C26_WalkOrder ==
    /\ tOut.walk \in {"analyzeFilesRecursive", "analyzeDirectoriesRecursive"}
           => \A i, j \in 1..Len(tOut.v) :
                 i < j => KeyBefore(EnumerationKey(tOut.v[i].path), EnumerationKey(tOut.v[j].path))
    /\ (tIn = ExampleWalk /\ tOut.walk = "analyzeFilesRecursive")
           => WalkPaths = <<Child(<<"a">>, Name("b", "txt")),
                            Child(Child(<<"a">>, <<"c">>), Name("d", "txt"))>>
    /\ (tIn = ExampleWalk /\ tOut.walk = "analyzeDirectoriesRecursive")
           => WalkPaths = <<<<"a">>, Child(<<"a">>, <<"c">>)>>

C26_Witness ==
    /\ tIn = ExampleWalk
    /\ tOut.walk = "analyzeDirectoriesRecursive"
    /\ Len(tOut.v) = 2

\* other places the same tree may be checked out at
OtherRoots == {<<"build", "/", "w">>, <<"home", "/", "bin", "/", "w">>}

\* the result of a walk that takes an exclusion list, for the tree at a
\* given root
FilesAt(walk, root) ==
    CASE walk = "run-agent" ->
            getFilesRecursively(tIn.fs, root, "root", ignoreDirsRunAgent, 0, root)
      [] walk = "coaching" ->
            getFilesRecursivelyCoaching(tIn.fs, root, "root", ignoreDirsCoaching, 0, root)
      [] walk = "agent-state" ->
            getFilesRecursivelyIntegration(tIn.fs, root, "root", ignoreDirsIntegration, 0, root)

\* C29 (refuted by the code): the relative paths a walk returns do not
\* depend on where the root of the tree is: the same tree at another root,
\* whose absolute path holds an exclusion word, gives the same result.
C29_RootLocationIrrelevant ==
    tOut.walk \in DOMAIN ExclusionLists
        => \A root \in OtherRoots : FilesAt(tOut.walk, root) = tOut.v

\* the calls that have not returned have maxDepth, maxDepth - 1, ... from
\* the outermost to the innermost, all positive
DepthsDecrease ==
    \A i \in 1..Len(vStack) : vStack[i].depth = vIn.maxDepth - (i - 1) /\ vStack[i].depth >= 1

\* the walk taken call by call gives what the walk as a function gives
TraversalAgrees ==
    vOut.state = "done" =>
        vOut.v = IF vIn.walk = "files"
                 THEN analyzeFilesRecursive(vIn.fs, vIn.root, "root", vIn.fileExtensions,
                                            vIn.maxDepth, 0)
                 ELSE analyzeDirectoriesRecursive(vIn.fs, vIn.root, "root", vIn.maxDepth, 0)

\* C30: the walk of every drawn directory graph, cycles included, with
\* every maxDepth comes to its end, and it does because each recursive call
\* is made with a maxDepth one smaller and returns at once at zero: the
\* calls in progress never number more than maxDepth.
C30_TraversalTerminates ==
    /\ <>(vOut.state = "done")
    /\ [](vOut.state # "idle" => DepthsDecrease)

\* a walk that is over after having gone around a cycle of the graph
C30_Witness ==
    /\ vOut.state = "done"
    /\ vIn.maxDepth = 4
    /\ \E n \in 1..Len(vOut.v) :
          includes(vOut.v[n].path, <<"mnt">>) /\ includes(vOut.v[n].path, <<"loop">>)

\* C22 (refuted by the code): a run that has started comes to its end,
\* whatever the service does, a service that never answers included.
C22_RunEnds == (phase = "files") ~> (phase \in {"done", "failed"})

NoResults == [files |-> <<>>, directories |-> <<>>, modules |-> <<>>]

\* C27 (refuted by the code): a run whose agent id names no character has
\* failed before anything was done: when it fails, no directory was listed
\* (a run with maxDepth > 0 starts by listing the repository), no step was
\* taken on a WorkItem, no cached note is among the results and no service
\* call was made.
C27_UnknownAgentFailsAtStartup ==
    (~run.character /\ phase = "failed") =>
        (maxDepth <= 0 /\ last = NoStep /\ results = NoResults /\ calls = 0)

\* C21 (refuted by the code): when the call for one agent's discussion
\* fails, the session does not throw; it goes on with the remaining agents,
\* and in the session returned every agent has a discussion, the agents
\* whose call failed the 'Discussion unavailable' placeholder.
C21_FailedDiscussionGetsPlaceholder ==
    /\ cSess.step # "threw"
    /\ cSess.step = "returned" =>
          /\ Len(cSess.discussions) = Len(coachingAgents)
          /\ \A n \in 1..Len(coachingAgents) :
                /\ cSess.discussions[n].character = coachingAgents[n]
                /\ coachingAgents[n] \in cSess.failed
                      => cSess.discussions[n].discussion = DiscussionUnavailable
====
